---------------------------- MODULE Spec2Model ----------------------------
(***************************************************************************)
(* A model of the recursive resolver: the TTL-aware LRU cache (cache.rs),  *)
(* its DNS specialisation, the target providers (target.rs) and the        *)
(* per-query state machine of the resolver (resolver.rs).                  *)
(*                                                                         *)
(* Time is counted in ticks; TicksPerSec ticks make one second, so that    *)
(* Duration::as_secs (a floor) is a real conversion.                       *)
(***************************************************************************)
EXTENDS Integers, Sequences, FiniteSets, TLC

VARIABLES
    lru,        \* Cache.lru: the entries, most recently used first
    capacity,   \* the capacity the LruCache was created with
    call,       \* the last call made on the cache API and what it returned
    hist,       \* history of the cache calls (recency of keys, stores so far)
    input,      \* what the environment supplies: the referral, the backend's table
    now,        \* the clock read by Instant::now()
    roots,      \* RecursiveResolver.roots
    seen,       \* ResolutionState.seen
    stack,      \* the nested resolve_inner invocations, outermost first
    ret         \* the value a finished resolve_inner hands to its caller

vars == <<lru, capacity, call, hist, input, now, roots, seen, stack, ret>>

(***************************************************************************)
(* Bounds of the model.                                                    *)
(***************************************************************************)
MaxCapacity == 2
MaxTime == 3
TicksPerSec == 2

(***************************************************************************)
(* Option values: None is the empty sequence, Some(x) a singleton.         *)
(***************************************************************************)
None == <<>>
Some(x) == <<x>>

(***************************************************************************)
(* lru::LruCache as used by Cache: a sequence of entries, head = most      *)
(* recently used, last = least recently used.                              *)
(***************************************************************************)
IndexOf(l, k) ==
    IF \E i \in 1..Len(l) : l[i].key = k
    THEN CHOOSE i \in 1..Len(l) : l[i].key = k
    ELSE 0

Without(l, i) == SubSeq(l, 1, i - 1) \o SubSeq(l, i + 1, Len(l))

\* LruCache::put with the bug of evicting the most recently used entry
LruPutEvictMru(l, cap, e) ==
    LET i == IndexOf(l, e.key) IN
    IF i > 0 THEN <<e>> \o Without(l, i)
    ELSE IF Len(l) >= cap THEN <<e>> \o SubSeq(l, 2, Len(l))
    ELSE <<e>> \o l

\* LruCache::put: replace and refresh an existing key, else evict the least
\* recently used entry of a full cache and insert as most recently used
LruPut(l, cap, e) ==
    LET i == IndexOf(l, e.key) IN
    IF i > 0 THEN <<e>> \o Without(l, i)
    ELSE IF Len(l) >= cap THEN <<e>> \o SubSeq(l, 1, Len(l) - 1)
    ELSE <<e>> \o l

\* LruCache::get: a hit moves the entry to the most recently used position
LruGet(l, k) ==
    LET i == IndexOf(l, k) IN
    IF i = 0 THEN l ELSE <<l[i]>> \o Without(l, i)

\* LruCache::pop: remove the entry of the key
LruPop(l, k) ==
    LET i == IndexOf(l, k) IN
    IF i = 0 THEN l ELSE Without(l, i)

(***************************************************************************)
(* Cache<K, V>                                                             *)
(***************************************************************************)
store_with_ttl(l, cap, key, value, valid_before) ==
    LruPut(l, cap, [key |-> key, value |-> value, valid_before |-> valid_before])

\* Returns the cache after the call and the call's result
get_with_remaining_ttl(l, key, t) ==
    LET i == IndexOf(l, key) IN
    IF i = 0 THEN [lru |-> l, res |-> None]
    ELSE LET with_ttl == l[i]
             got == LruGet(l, key)
         IN  IF with_ttl.valid_before < t
             THEN [lru |-> LruPop(got, key), res |-> None]
             ELSE [lru |-> got,
                   res |-> Some([value |-> with_ttl.value,
                                 remaining |-> with_ttl.valid_before - t])]

Keys(l) == {l[i].key : i \in 1..Len(l)}

Entries(l) == {l[i] : i \in 1..Len(l)}

(***************************************************************************)
(* The generic cache driven through its two operations.                    *)
(***************************************************************************)
CacheKeys == 1..(MaxCapacity + 1)
CacheValues == {"value0", "value1"}
CacheExpiries == {1, 2}
CacheTimes == {0, 1, 2}

RemoveKey(s, k) == SelectSeq(s, LAMBDA x : x # k)

InSeq(s, x) == \E i \in 1..Len(s) : s[i] = x

NoCall == [op |-> "none", key |-> 0, value |-> "", valid_before |-> 0,
           now |-> 0, res |-> None]

InitResolverIdle ==
    /\ now = 0
    /\ roots = <<>>
    /\ seen = <<>>
    /\ stack = <<>>
    /\ ret = None

InitCache ==
    /\ lru = <<>>
    /\ capacity \in 1..MaxCapacity
    /\ call = NoCall
    /\ hist = [recent |-> <<>>, stored |-> <<>>, onlyStores |-> TRUE]
    /\ input = <<>>
    /\ InitResolverIdle

StoreWithTtl(k, v, e) ==
    /\ lru' = store_with_ttl(lru, capacity, k, v, e)
    /\ call' = [op |-> "store", key |-> k, value |-> v, valid_before |-> e,
                now |-> 0, res |-> None]
    /\ hist' = [recent |-> SelectSeq(RemoveKey(hist.recent, k) \o <<k>>,
                                     LAMBDA x : x \in Keys(lru')),
                stored |-> IF hist.onlyStores /\ ~InSeq(hist.stored, k)
                           THEN hist.stored \o <<k>> ELSE <<>>,
                onlyStores |-> hist.onlyStores /\ ~InSeq(hist.stored, k)]
    /\ UNCHANGED <<capacity, input, now, roots, seen, stack, ret>>

GetWithRemainingTtl(k, t) ==
    LET r == get_with_remaining_ttl(lru, k, t) IN
    /\ lru' = r.lru
    /\ call' = [op |-> "get", key |-> k, value |-> "", valid_before |-> 0,
                now |-> t, res |-> r.res]
    /\ hist' = [recent |-> IF r.res # None
                           THEN RemoveKey(hist.recent, k) \o <<k>>
                           ELSE RemoveKey(hist.recent, k),
                stored |-> <<>>,
                onlyStores |-> FALSE]
    /\ UNCHANGED <<capacity, input, now, roots, seen, stack, ret>>

NextCache ==
    \/ \E k \in CacheKeys, v \in CacheValues, e \in CacheExpiries : StoreWithTtl(k, v, e)
    \/ \E k \in CacheKeys, t \in CacheTimes : GetWithRemainingTtl(k, t)

SpecCache == InitCache /\ [][NextCache]_vars

(***************************************************************************)
(* C3: for a key stored with expiry e, get_with_remaining_ttl(k, now)      *)
(* returns the stored value with e - now when now < e; when now >= e it    *)
(* returns None and removes the entry (the entry count drops by one); a    *)
(* read of a key that is not in the cache returns None.                    *)
(***************************************************************************)
C3_ExpiryAtOrAfterReturnsNone ==
    [][call'.op = "get" =>
        LET k == call'.key
            t == call'.now
            i == IndexOf(lru, k)
        IN  IF i = 0
            THEN call'.res = None /\ lru' = lru
            ELSE IF t < lru[i].valid_before
            THEN /\ call'.res = Some([value |-> lru[i].value,
                                      remaining |-> lru[i].valid_before - t])
                 /\ k \in Keys(lru')
            ELSE /\ call'.res = None
                 /\ k \notin Keys(lru')
                 /\ Len(lru') = Len(lru) - 1]_vars

(***************************************************************************)
(* C10: the cache never holds more than `capacity` entries; a store of a   *)
(* new key into a full cache evicts exactly the entry least recently       *)
(* stored or read with a hit and keeps the others; after capacity + 1      *)
(* stores of distinct keys and no read, the first stored key is absent and *)
(* the other keys are present.                                             *)
(***************************************************************************)
C10_StrictLru ==
    [][/\ Len(lru') <= capacity
       /\ (call'.op = "store" /\ call'.key \notin Keys(lru) /\ Len(lru) = capacity)
            => /\ Keys(lru) \ Keys(lru') = {Head(hist.recent)}
               /\ Keys(lru') = (Keys(lru) \ {Head(hist.recent)}) \cup {call'.key}
       /\ (hist'.onlyStores /\ Len(hist'.stored) = capacity + 1)
            => /\ hist'.stored[1] \notin Keys(lru')
               /\ \A j \in 2..(capacity + 1) : hist'.stored[j] \in Keys(lru')]_vars

C10_Witness ==
    /\ capacity >= 2
    /\ hist.onlyStores
    /\ Len(hist.stored) = capacity + 1
    /\ Len(lru) = capacity


(***************************************************************************)
(* DNS data: a Name is a sequence of labels (leftmost first, the root name *)
(* is the empty sequence); a Record is (name, rtype, ttl, rdata).          *)
(***************************************************************************)
LowerLabel(l) ==
    CASE l = "NS1" -> "ns1"
      [] l = "Z" -> "z"
      [] l = "A" -> "a"
      [] OTHER -> l

\* Name::to_lowercase
to_lowercase(name) == [i \in 1..Len(name) |-> LowerLabel(name[i])]

\* Name's PartialEq: labels compared without regard to case
NameEq(a, b) == to_lowercase(a) = to_lowercase(b)

\* Name's Display: the labels as they are, case kept
to_string(name) == [i \in 1..Len(name) |-> name[i]]

\* Name::base_name: the name without its leftmost label
base_name(name) == IF Len(name) = 0 THEN name ELSE Tail(name)

\* Name::zone_of: self is an ancestor of, or equal to, name (case ignored)
zone_of(self, name) ==
    /\ Len(self) <= Len(name)
    /\ SubSeq(to_lowercase(name), Len(name) - Len(self) + 1, Len(name))
         = to_lowercase(self)

RdataA(ip) == [kind |-> "A", ip |-> ip, target |-> <<>>]
RdataNS(target) == [kind |-> "NS", ip |-> "", target |-> target]
NoRdata == [kind |-> "none", ip |-> "", target |-> <<>>]

RecA(name, ip, ttl) == [name |-> name, rtype |-> "A", ttl |-> ttl, rdata |-> RdataA(ip)]
RecNS(name, target, ttl) ==
    [name |-> name, rtype |-> "NS", ttl |-> ttl, rdata |-> RdataNS(target)]

\* cache::Query; Hash and Eq of the name ignore case, so the key holds the
\* name folded to lower case
Query(to_resolve, record_type) ==
    [to_resolve |-> to_lowercase(to_resolve), record_type |-> record_type]

RecordKey(r) == Query(r.name, r.rtype)

\* the largest ttl of the records, where the code takes the smallest
MaxTtl(value) ==
    IF value = <<>> THEN 0
    ELSE CHOOSE m \in {value[i].ttl : i \in 1..Len(value)} :
            \A i \in 1..Len(value) : m >= value[i].ttl

\* value.iter().map(Record::ttl).min().unwrap_or(0)
MinTtl(value) ==
    IF value = <<>> THEN 0
    ELSE CHOOSE m \in {value[i].ttl : i \in 1..Len(value)} :
            \A i \in 1..Len(value) : m <= value[i].ttl

\* DnsCache::store that also stores records of ttl 0
store_zero_ttl(l, cap, query, value, t) ==
    store_with_ttl(l, cap, query, value, t + MinTtl(value) * TicksPerSec)

\* DnsCache::store that adds the records to those of the entry it finds
store_appending(l, cap, query, value, t) ==
    LET min_ttl == MinTtl(value)
        i == IndexOf(l, query)
    IN  IF min_ttl = 0 THEN l
        ELSE store_with_ttl(l, cap, query,
                            (IF i = 0 THEN <<>> ELSE l[i].value) \o value,
                            t + min_ttl * TicksPerSec)

\* DnsCache::store that returns without the write
store_nothing(l, cap, query, value, t) == l

\* DnsCache::store
store(l, cap, query, value, t) ==
    LET min_ttl == MinTtl(value) IN
    IF min_ttl = 0 THEN l
    ELSE store_with_ttl(l, cap, query, value, t + min_ttl * TicksPerSec)

\* the first loop of eligible: the NS targets collected so far, and whether
\* every owner seen is a zone of to_resolve
RECURSIVE eligible_name_servers(_, _, _, _)
eligible_name_servers(name_servers, i, names, to_resolve) ==
    IF i > Len(name_servers) THEN [ok |-> TRUE, names |-> names]
    ELSE LET name_server == name_servers[i]
             names2 == IF name_server.rdata.kind = "NS"
                       THEN names \cup {to_string(name_server.rdata.target)}
                       ELSE names
         IN  IF ~zone_of(name_server.name, to_resolve)
             THEN [ok |-> FALSE, names |-> names2]
             ELSE eligible_name_servers(name_servers, i + 1, names2, to_resolve)

\* eligible without the check of the glue records
eligible_ignoring_glue(name_servers, glue, to_resolve) ==
    eligible_name_servers(name_servers, 1, {}, to_resolve).ok

\* eligible
eligible(name_servers, glue, to_resolve) ==
    LET first == eligible_name_servers(name_servers, 1, {}, to_resolve) IN
    /\ first.ok
    /\ \A i \in 1..Len(glue) : to_string(glue[i].name) \in first.names

\* make_referral_query: the records binned by (name, type), each bin in the
\* order of the records
ReferralKeys(records) == {RecordKey(records[i]) : i \in 1..Len(records)}

\* make_referral_query that inserts the record where the code pushes it, so
\* that a bin holds its last record only
make_referral_query_last(records) ==
    [q \in ReferralKeys(records) |->
        LET bin == SelectSeq(records, LAMBDA r : RecordKey(r) = q)
        IN  <<bin[Len(bin)]>>]

\* make_referral_query that puts the whole section into every bin
make_referral_query_whole(records) == [q \in ReferralKeys(records) |-> records]

\* make_referral_query: the records binned by (owner name, record type)
make_referral_query(records) ==
    [q \in ReferralKeys(records) |->
        SelectSeq(records, LAMBDA r : RecordKey(r) = q)]

\* the orders in which a HashMap of these keys can be iterated
Orders(S) ==
    {o \in [1..Cardinality(S) -> S] :
        \A i, j \in 1..Cardinality(S) : i # j => o[i] # o[j]}

RECURSIVE StoreGroups(_, _, _, _, _, _)
StoreGroups(l, cap, groups, order, i, t) ==
    IF i > Len(order) THEN l
    ELSE StoreGroups(store(l, cap, order[i], groups[order[i]], t),
                     cap, groups, order, i + 1, t)

\* DnsCache::store_referral: the caches the call can leave behind (one per
\* iteration order of the two maps)
store_referral(l, cap, name_servers, glue, to_resolve, t) ==
    IF ~eligible(name_servers, glue, to_resolve) THEN {l}
    ELSE LET ns_groups == make_referral_query(name_servers)
             glue_groups == make_referral_query(glue)
         IN  {StoreGroups(StoreGroups(l, cap, ns_groups, o1, 1, t),
                          cap, glue_groups, o2, 1, t) :
                o1 \in Orders(DOMAIN ns_groups), o2 \in Orders(DOMAIN glue_groups)}

\* update_ttl that leaves the ttl fields as they were stored
update_ttl_keep(value, remaining) == value

\* update_ttl: every record's ttl replaced by the whole seconds of remaining
update_ttl(value, remaining) ==
    [i \in 1..Len(value) |-> [value[i] EXCEPT !.ttl = remaining \div TicksPerSec]]

\* DnsCache::get_and_update_ttl
get_and_update_ttl(l, query, t) ==
    LET got == get_with_remaining_ttl(l, query, t) IN
    [lru |-> got.lru,
     res |-> IF got.res = None THEN None
             ELSE Some(update_ttl(got.res[1].value, got.res[1].remaining))]

\* get_ns_name: the target of a record of type NS with NS rdata
get_ns_name(record) ==
    IF record.rtype # "NS" THEN None
    ELSE IF record.rdata.kind = "NS" THEN Some(record.rdata.target)
    ELSE None

\* parents: the strict ancestors, closest first, without the root name
RECURSIVE parents_from(_)
parents_from(name) ==
    IF Len(name) = 0 THEN <<>> ELSE <<name>> \o parents_from(base_name(name))

parents(name) == parents_from(base_name(name))

\* DnsCache::fetch_glue from name server i on
RECURSIVE fetch_glue(_, _, _, _)
fetch_glue(l, name_servers, i, t) ==
    IF i > Len(name_servers) THEN [lru |-> l, glue |-> <<>>]
    ELSE LET name == get_ns_name(name_servers[i])
             got == IF name = None THEN [lru |-> l, res |-> None]
                    ELSE get_and_update_ttl(l, Query(name[1], "A"), t)
             rest == fetch_glue(got.lru, name_servers, i + 1, t)
         IN  [lru |-> rest.lru,
              glue |-> (IF got.res = None THEN <<>> ELSE got.res[1]) \o rest.glue]

CacheNone == [kind |-> "None", records |-> <<>>, glue |-> <<>>]

\* the loop of get_best_record over the parents, from parent i on
RECURSIVE best_referral(_, _, _, _)
best_referral(l, ps, i, t) ==
    IF i > Len(ps) THEN [lru |-> l, resp |-> CacheNone]
    ELSE LET got == get_and_update_ttl(l, Query(ps[i], "NS"), t) IN
         IF got.res # None
         THEN LET g == fetch_glue(got.lru, got.res[1], 1, t) IN
              [lru |-> g.lru,
               resp |-> [kind |-> "Referral", records |-> got.res[1], glue |-> g.glue]]
         ELSE best_referral(got.lru, ps, i + 1, t)

\* DnsCache::get_best_record: the cache after the call and the CacheResponse
get_best_record(l, query, t) ==
    LET got == get_and_update_ttl(l, query, t) IN
    IF got.res # None
    THEN [lru |-> got.lru,
          resp |-> [kind |-> "Authoritative", records |-> got.res[1], glue |-> <<>>]]
    ELSE best_referral(got.lru, parents(query.to_resolve), 1, t)


(***************************************************************************)
(* The DNS cache driven through its operations, with the clock advancing   *)
(* between the calls.                                                      *)
(***************************************************************************)
DnsCapacity == 3

Zone == <<"z">>
Www == <<"www", "z">>
Ns1 == <<"ns1", "z">>
Ns1Upper == <<"NS1", "z">>
Ns2 == <<"ns2", "z">>
Other == <<"y">>
Victim == <<"victim", "y">>

NsSections ==
    { <<>>,
      <<RecNS(Zone, Ns1Upper, 1)>>,
      <<RecNS(Zone, Ns1, 0)>>,
      <<RecNS(Zone, Ns1, 2), RecNS(Zone, Ns2, 1)>>,
      <<RecNS(Www, Ns1, 1), RecNS(Zone, Ns2, 1)>>,
      <<RecNS(Other, Ns1, 1)>>,
      <<RecNS(Zone, Ns1, 1), RecNS(Other, Ns2, 1)>>,
      <<RecNS(Zone, Ns1, 1), RecA(Other, "ip3", 1)>> }

GlueSections ==
    { <<>>,
      <<RecA(Ns1, "ip1", 1)>>,
      <<RecA(Ns1, "ip1", 2), RecA(Ns2, "ip2", 1)>>,
      <<RecA(Victim, "ip3", 1)>>,
      <<RecA(Ns1, "ip1", 1), RecA(Victim, "ip3", 1)>> }

DnsTargets == {Www, Ns1}

AnswerSections ==
    { <<RecA(Www, "ip1", 1)>>,
      <<RecA(Www, "ip1", 0)>>,
      <<RecA(Www, "ip1", 1), RecA(Www, "ip2", 0)>>,
      <<RecA(Ns1, "ip2", 2), RecA(Ns1, "ip1", 1)>> }

\* the (query, value) pairs store is called with: every answer section under
\* the key of its records, and the empty list
StoreCalls ==
    {<<RecordKey(value[1]), value>> : value \in AnswerSections}
    \cup {<<Query(Www, "A"), <<>>>>}

DnsQueries == {Query(Www, "A"), Query(Ns1, "A"), Query(Zone, "NS")}

\* a name below Www, with two ancestors that can hold NS records
Deep == <<"x", "www", "z">>
BestRecordQueries == DnsQueries \cup {Query(Deep, "A")}

DnsCall(op, query, records, res) ==
    [op |-> op, query |-> query, records |-> records, now |-> now, res |-> res]

InitDns ==
    /\ lru = <<>>
    /\ capacity = DnsCapacity
    /\ call = [op |-> "none"]
    /\ hist = <<>>
    /\ \E name_servers \in NsSections, glue \in GlueSections, to_resolve \in DnsTargets :
          input = [name_servers |-> name_servers, glue |-> glue,
                   to_resolve |-> to_resolve]
    /\ InitResolverIdle

DnsStore(query, value) ==
    /\ lru' = store(lru, capacity, query, value, now)
    /\ call' = DnsCall("store", query, value, None)
    /\ UNCHANGED <<capacity, hist, input, now, roots, seen, stack, ret>>

DnsStoreReferral ==
    /\ lru' \in store_referral(lru, capacity, input.name_servers, input.glue,
                               input.to_resolve, now)
    /\ call' = DnsCall("store_referral", <<>>, <<>>,
                       IF call.op = "store_referral" /\ call.now = now
                       THEN Some("repeated") ELSE None)
    /\ UNCHANGED <<capacity, hist, input, now, roots, seen, stack, ret>>

DnsGetAndUpdateTtl(query) ==
    LET got == get_and_update_ttl(lru, query, now) IN
    /\ lru' = got.lru
    /\ call' = DnsCall("get_and_update_ttl", query, <<>>, got.res)
    /\ UNCHANGED <<capacity, hist, input, now, roots, seen, stack, ret>>

DnsGetBestRecord(query) ==
    LET got == get_best_record(lru, query, now) IN
    /\ lru' = got.lru
    /\ call' = DnsCall("get_best_record", query, <<>>, got.resp)
    /\ UNCHANGED <<capacity, hist, input, now, roots, seen, stack, ret>>

Tick ==
    /\ now < MaxTime
    /\ now' = now + 1
    /\ UNCHANGED <<lru, capacity, call, hist, input, roots, seen, stack, ret>>

NextDns ==
    \/ \E c \in StoreCalls : DnsStore(c[1], c[2])
    \/ DnsStoreReferral
    \/ \E query \in DnsQueries : DnsGetAndUpdateTtl(query)
    \/ \E query \in BestRecordQueries : DnsGetBestRecord(query)
    \/ Tick

SpecDns == InitDns /\ [][NextDns]_vars


(***************************************************************************)
(* C4: store_referral is all-or-nothing: when a record of the name-server  *)
(* section has an owner that is not an ancestor of (or equal to)           *)
(* to_resolve, or a glue record's owner is not among the NS target names,  *)
(* the cache (entries, expiries and LRU order) is what it was before the   *)
(* call.                                                                   *)
(***************************************************************************)
NsTargets(name_servers) ==
    {name_servers[i].rdata.target :
        i \in {j \in 1..Len(name_servers) : name_servers[j].rdata.kind = "NS"}}

Rejected(name_servers, glue, to_resolve) ==
    \/ \E i \in 1..Len(name_servers) : ~zone_of(name_servers[i].name, to_resolve)
    \/ \E i \in 1..Len(glue) :
          \A target \in NsTargets(name_servers) : ~NameEq(glue[i].name, target)

C4_RejectedReferralLeavesCache ==
    [][(call'.op = "store_referral"
          /\ Rejected(input.name_servers, input.glue, input.to_resolve))
        => lru' = lru]_vars

C4_Witness ==
    /\ call.op = "store_referral"
    /\ lru # <<>>
    /\ \A i \in 1..Len(input.name_servers) :
          zone_of(input.name_servers[i].name, input.to_resolve)
    /\ \E i \in 1..Len(input.name_servers) : input.name_servers[i].ttl > 0
    /\ \E i \in 1..Len(input.glue) :
          /\ input.glue[i].ttl > 0
          /\ \A target \in NsTargets(input.name_servers) :
                ~NameEq(input.glue[i].name, target)
    /\ \E i \in 1..Len(input.glue) :
          \E target \in NsTargets(input.name_servers) :
                NameEq(input.glue[i].name, target)


(***************************************************************************)
(* Properties of the DNS cache                                             *)
(***************************************************************************)
\* the step is a call of op (the clock stands still during a call)
Called(op) == call'.op = op /\ now' = now

SmallestTtl(R) ==
    CHOOSE m \in {R[i].ttl : i \in 1..Len(R)} : \A i \in 1..Len(R) : m <= R[i].ttl

\* the records of R with every ttl set to ttl
WithTtl(R, ttl) == [j \in 1..Len(R) |-> [R[j] EXCEPT !.ttl = ttl]]

\* C11: records R stored by store(q, R, t0) with smallest ttl T > 0 and read by
\* get_and_update_ttl(q, now) at t0 <= now before the expiry come back in
\* their order, every ttl replaced by floor(T - (now - t0)) seconds; at
\* now = t0 every ttl is T.
C11_TtlRewrittenToRemaining ==
    [][(/\ call.op = "store"
        /\ call.records # <<>>
        /\ SmallestTtl(call.records) > 0
        /\ Called("get_and_update_ttl")
        /\ call'.query = call.query
        /\ call.now <= now
        /\ now < call.now + SmallestTtl(call.records) * TicksPerSec) =>
            /\ call'.res =
                 Some(WithTtl(call.records,
                              (SmallestTtl(call.records) * TicksPerSec
                                 - (now - call.now)) \div TicksPerSec))
            /\ now = call.now =>
                 call'.res = Some(WithTtl(call.records, SmallestTtl(call.records)))]_vars

\* two records stored with ttl 2 and 1 were read at the time of the store and
\* both came back with ttl 1
C11_Witness ==
    /\ call.op = "get_and_update_ttl"
    /\ call.res = Some(<<RecA(Ns1, "ip2", 1), RecA(Ns1, "ip1", 1)>>)
    /\ \E i \in 1..Len(lru) :
          /\ lru[i].key = call.query
          /\ lru[i].value = <<RecA(Ns1, "ip2", 2), RecA(Ns1, "ip1", 1)>>
          /\ lru[i].valid_before = call.now + TicksPerSec

HasZeroTtl(R) == R = <<>> \/ \E i \in 1..Len(R) : R[i].ttl = 0

GroupKeys(records) ==
    {[to_resolve |-> to_lowercase(records[i].name), record_type |-> records[i].rtype] :
        i \in 1..Len(records)}

Group(records, q) ==
    SelectSeq(records, LAMBDA r : /\ to_lowercase(r.name) = q.to_resolve
                                  /\ r.rtype = q.record_type)

\* the referral of this behaviour fits into the cache next to what is there
FreeCapacity ==
    Cardinality(Keys(lru) \cup GroupKeys(input.name_servers)
                  \cup GroupKeys(input.glue)) <= capacity

\* the cache after the step holds the group q of records, stored now
HoldsGroup(records, q) ==
    /\ \E i \in 1..Len(lru') :
          lru'[i] = [key |-> q, value |-> Group(records, q),
                     valid_before |-> now + SmallestTtl(Group(records, q)) * TicksPerSec]
    /\ get_and_update_ttl(lru', q, now).res =
          Some(WithTtl(Group(records, q), SmallestTtl(Group(records, q))))

EligibleReferralStored ==
    /\ Called("store_referral")
    /\ eligible(input.name_servers, input.glue, input.to_resolve)
    /\ FreeCapacity

Live(l, q, t, strict) ==
    \E i \in 1..Len(l) :
        /\ l[i].key = q
        /\ IF strict THEN t < l[i].valid_before ELSE t <= l[i].valid_before

\* the records of the entry for q, their ttls rewritten at time t
Cached(l, q, t) ==
    LET e == CHOOSE e \in Entries(l) : e.key = q IN
    WithTtl(e.value, (e.valid_before - t) \div TicksPerSec)

\* the strict ancestors of a name, the closest first, without the root name
Ancestors(name) == [k \in 1..(Len(name) - 1) |-> SubSeq(name, k + 1, Len(name))]

RECURSIVE GlueFor(_, _, _, _, _)
GlueFor(l, ns, i, t, strict) ==
    IF i > Len(ns) THEN <<>>
    ELSE (IF /\ ns[i].rtype = "NS"
             /\ ns[i].rdata.kind = "NS"
             /\ Live(l, [to_resolve |-> to_lowercase(ns[i].rdata.target),
                         record_type |-> "A"], t, strict)
          THEN Cached(l, [to_resolve |-> to_lowercase(ns[i].rdata.target),
                          record_type |-> "A"], t)
          ELSE <<>>) \o GlueFor(l, ns, i + 1, t, strict)

\* what get_best_record is to return for the cache l at time t, given what
\* counts as an unexpired entry
BestRecord(l, query, t, strict) ==
    LET ps == Ancestors(query.to_resolve)
        hits == {k \in 1..Len(ps) :
                    Live(l, [to_resolve |-> ps[k], record_type |-> "NS"], t, strict)}
    IN  IF Live(l, query, t, strict)
        THEN [kind |-> "Authoritative", records |-> Cached(l, query, t), glue |-> <<>>]
        ELSE IF hits = {}
        THEN [kind |-> "None", records |-> <<>>, glue |-> <<>>]
        ELSE LET k == CHOOSE k \in hits : \A h \in hits : k <= h
                 ns == Cached(l, [to_resolve |-> ps[k], record_type |-> "NS"], t)
             IN  [kind |-> "Referral", records |-> ns,
                  glue |-> GlueFor(l, ns, 1, t, strict)]

\* C14: get_best_record(query, now) returns Authoritative(records) for an
\* unexpired exact entry; otherwise Referral(ns, glue) for the closest strict
\* ancestor (never the root name) with an unexpired NS entry, glue being the
\* unexpired cached (NS target, A) entries in the order of the NS records;
\* otherwise None.  An entry is unexpired while now < its expiry.
C14_BestRecord ==
    [][Called("get_best_record") =>
          call'.res = BestRecord(lru, call'.query, now, TRUE)]_vars

\* C14 with an entry counted as unexpired while now <= its expiry, which is
\* what get_with_remaining_ttl does
C14_BestRecordUpToExpiry ==
    [][Called("get_best_record") =>
          call'.res = BestRecord(lru, call'.query, now, FALSE)]_vars

\* the referral of this behaviour is acceptable when names are compared
\* without regard to case
EligibleIgnoringCase ==
    ~Rejected(input.name_servers, input.glue, input.to_resolve)

\* C15: the eligibility check compares the owner of a glue record with the NS
\* targets without regard to case, so a referral whose NS target and glue
\* owner differ in case only is eligible, and store_referral caches it.
C15_EligibilityIgnoresCase ==
    [][(/\ Called("store_referral")
        /\ EligibleIgnoringCase
        /\ FreeCapacity) =>
            /\ eligible(input.name_servers, input.glue, input.to_resolve)
            /\ \A q \in GroupKeys(input.name_servers) :
                  SmallestTtl(Group(input.name_servers, q)) > 0 =>
                      HoldsGroup(input.name_servers, q)
            /\ \A q \in GroupKeys(input.glue) :
                  SmallestTtl(Group(input.glue, q)) > 0 => HoldsGroup(input.glue, q)]_vars


(***************************************************************************)
(* Target providers (target.rs)                                            *)
(***************************************************************************)
\* the orders a shuffle can leave a list in
Shuffles(items) ==
    {[i \in 1..Len(items) |-> items[o[i]]] : o \in Orders(1..Len(items))}

NoCandidates == [kind |-> "none", items |-> <<>>, glue |-> <<>>]

\* RootsProvider::new
RootsProviderNew(rs) ==
    {[kind |-> "roots", items |-> shuffled_pointers, glue |-> <<>>] :
        shuffled_pointers \in Shuffles(rs)}

\* NsProvider::new that keeps the records that are not of type NS
NsProviderNewUnfiltered(nameservers, glue) ==
    {[kind |-> "ns", items |-> shuffled_nameservers, glue |-> glue] :
        shuffled_nameservers \in Shuffles(nameservers)}

\* NsProvider::new
NsProviderNew(nameservers, glue) ==
    {[kind |-> "ns", items |-> shuffled_nameservers, glue |-> glue] :
        shuffled_nameservers \in
            Shuffles(SelectSeq(nameservers, LAMBDA r : r.rtype = "NS"))}

ServFail(message) ==
    [ok |-> FALSE, records |-> <<>>, error |-> "ServFail", message |-> message,
     query |-> <<>>]

\* ServFail(format!("Broken DNS config, seen {:?} twice", query_key))
ServFailSeenTwice(query_key) ==
    [ok |-> FALSE, records |-> <<>>, error |-> "ServFail",
     message |-> "Broken DNS config, seen twice", query |-> query_key]

NxDomain ==
    [ok |-> FALSE, records |-> <<>>, error |-> "NxDomain", message |-> "",
     query |-> <<>>]

BackendError(kind) ==
    [ok |-> FALSE, records |-> <<>>, error |-> kind, message |-> "", query |-> <<>>]

Ok(records) ==
    [ok |-> TRUE, records |-> records, error |-> "", message |-> "", query |-> <<>>]

TargetIp(ip) == [ok |-> TRUE, kind |-> "Ip", ip |-> ip, name |-> <<>>, err |-> Ok(<<>>)]
TargetName(name) ==
    [ok |-> TRUE, kind |-> "Name", ip |-> "", name |-> name, err |-> Ok(<<>>)]
TargetErr(e) == [ok |-> FALSE, kind |-> "Err", ip |-> "", name |-> <<>>, err |-> e]

\* get_name_if_ns
get_name_if_ns(record) ==
    IF record.rtype # "NS" THEN None
    ELSE IF record.rdata.kind = "NS"
    THEN Some([ok |-> TRUE, name |-> record.rdata.target, err |-> Ok(<<>>)])
    ELSE IF record.rdata.kind = "none"
    THEN Some([ok |-> FALSE, name |-> <<>>, err |-> ServFail("no rdata")])
    ELSE Some([ok |-> FALSE, name |-> <<>>, err |-> ServFail("inconsistent rdata type")])

\* find_in_glue that finds nothing
find_in_glue_nothing(name, glue) == None

\* find_in_glue: the address of the first glue record of type A, with A
\* rdata, owned by name
find_in_glue(name, glue) ==
    LET hits == SelectSeq(glue, LAMBDA r : /\ r.rtype = "A"
                                           /\ NameEq(r.name, name)
                                           /\ r.rdata.kind = "A")
    IN  IF hits = <<>> THEN None ELSE Some(hits[1].rdata.ip)

\* get_target
get_target(ns, glue) ==
    LET result == get_name_if_ns(ns) IN
    IF result = None
    THEN TargetErr(ServFail("inconsistent data, NsProvider was fed a non-ns record"))
    ELSE IF ~result[1].ok THEN TargetErr(result[1].err)
    ELSE LET ip == find_in_glue(result[1].name, glue) IN
         IF ip # None THEN TargetIp(ip[1]) ELSE TargetName(result[1].name)

\* TargetProvider::next that reads the last element and leaves it in place
ProviderNextPeek(candidates) ==
    LET n == Len(candidates.items)
    IN  IF n = 0 THEN [target |-> None, candidates |-> candidates]
        ELSE IF candidates.kind = "roots"
        THEN [target |-> Some(TargetIp(candidates.items[n])), candidates |-> candidates]
        ELSE [target |-> Some(get_target(candidates.items[n], candidates.glue)),
              candidates |-> candidates]

\* TargetProvider::next of both providers: the Option<Target> (or the error)
\* and the provider after the call; Vec::pop takes the last element
ProviderNext(candidates) ==
    LET n == Len(candidates.items)
        rest == [candidates EXCEPT !.items = SubSeq(candidates.items, 1, n - 1)]
    IN  IF n = 0 THEN [target |-> None, candidates |-> candidates]
        ELSE IF candidates.kind = "roots"
        THEN [target |-> Some(TargetIp(candidates.items[n])), candidates |-> rest]
        ELSE [target |-> Some(get_target(candidates.items[n], candidates.glue)),
              candidates |-> rest]

(***************************************************************************)
(* The resolver (resolver.rs)                                              *)
(***************************************************************************)
MAX_RECURSION_DEPTH == 5
CACHE_SIZE == 100000

\* is_final with the authoritative flag negated
is_final_not_authoritative(message) ==
    ~message.authoritative /\ message.answers # <<>>

\* is_final that does not look at the authoritative flag
is_final_any_answers(message) == message.answers # <<>>

\* is_final
is_final(message) == message.authoritative /\ message.answers # <<>>

\* the match on the backend's result that tests is_final before the
\* response code
classify_final_first(message) ==
    IF ~message.ok THEN "Err"
    ELSE IF is_final(message) THEN "Answer"
    ELSE IF message.response_code = "NXDomain" THEN "NxDomain"
    ELSE "Referral"

\* the match on the backend's result that goes on after an error
classify_ignoring_error(message) ==
    IF ~message.ok THEN "Referral"
    ELSE IF message.response_code = "NXDomain" THEN "NxDomain"
    ELSE IF is_final(message) THEN "Answer"
    ELSE "Referral"

\* the match on the backend's result in resolve_inner
classify(message) ==
    IF ~message.ok THEN "Err"
    ELSE IF message.response_code = "NXDomain" THEN "NxDomain"
    ELSE IF is_final(message) THEN "Answer"
    ELSE "Referral"

\* the depth test that lets one more level through
too_deep_off_by_one(depth) == depth > MAX_RECURSION_DEPTH + 1

\* depth > MAX_RECURSION_DEPTH
too_deep(depth) == depth > MAX_RECURSION_DEPTH

\* seen.contains that compares the names byte by byte
seen_contains_case_sensitive(s, to_resolve, record_type) ==
    \E i \in 1..Len(s) : s[i][1] = to_resolve /\ s[i][2] = record_type

\* first_ip that takes the first record where the code pops the last
first_ip_first(result) ==
    IF result = <<>> THEN [ok |-> FALSE, ip |-> "", err |-> ServFail("unexpected empty result")]
    ELSE LET record == result[1] IN
         IF record.rdata.kind = "A"
         THEN [ok |-> TRUE, ip |-> record.rdata.ip, err |-> Ok(<<>>)]
         ELSE [ok |-> FALSE, ip |-> "",
               err |-> ServFail("no rdata, or wrong type of rdata")]

\* first_ip: the address of the last record of the result
first_ip(result) ==
    IF result = <<>> THEN [ok |-> FALSE, ip |-> "", err |-> ServFail("unexpected empty result")]
    ELSE LET record == result[Len(result)] IN
         IF record.rdata.kind = "A"
         THEN [ok |-> TRUE, ip |-> record.rdata.ip, err |-> Ok(<<>>)]
         ELSE [ok |-> FALSE, ip |-> "",
               err |-> ServFail("no rdata, or wrong type of rdata")]

\* Instant::now(): the clock is read, at or after the time of the last reading
InstantNow == now' \in now..MaxTime

\* one invocation of resolve_inner, about to run its first statement
Frame(to_resolve, record_type, depth) ==
    [to_resolve |-> to_resolve, record_type |-> record_type, depth |-> depth,
     pc |-> "enter", candidates |-> NoCandidates, target |-> "", message |-> None]

Top == stack[Len(stack)]

SetTop(frame) == [stack EXCEPT ![Len(stack)] = frame]

\* a test that looks only at the invocations that are still running
seen_contains_running(s, to_resolve, record_type) ==
    \E i \in 1..(Len(stack) - 1) : /\ NameEq(stack[i].to_resolve, to_resolve)
                                   /\ stack[i].record_type = record_type

\* seen.contains(&query_key): names compared without regard to case
seen_contains(s, to_resolve, record_type) ==
    \E i \in 1..Len(s) : NameEq(s[i][1], to_resolve) /\ s[i][2] = record_type

\* the invocation on top of the stack returns value to whoever awaits it
Return(value) ==
    /\ stack' = SubSeq(stack, 1, Len(stack) - 1)
    /\ ret' = Some(value)


(***************************************************************************)
(* The backend: what a call of Backend::query can come back with.  The     *)
(* answers for HostA and HostB, and the referral to HostB with its glue,   *)
(* carry a positive ttl and can be cached; the other records carry ttl 0.  *)
(***************************************************************************)
HostA == <<"a", "z">>
HostB == <<"b", "z">>
HostC == <<"c", "z">>
HostD == <<"d", "z">>
HostE == <<"e", "z">>
HostF == <<"f", "z">>
HostAUpper == <<"A", "z">>
CachedHosts == {HostA}
\* the hosts the backend has answers of several records for
ListedHosts == {HostB}
Queried == {HostA, HostB, <<"a", "b">>}

\* the name servers the backend delegates a query for a host to: the host
\* itself, the next host, or the first one
Successor(host) ==
    CASE host = HostA -> HostB
      [] host = HostB -> HostC
      [] host = HostC -> HostD
      [] host = HostD -> HostE
      [] host = HostE -> HostF
      [] host = HostF -> HostAUpper
      [] OTHER -> HostA

Delegates(host) == {host, Successor(host), HostAUpper}
RootChoices == {<<>>, <<"ip1">>, <<"10.0.0.1">>, <<"ip4", "ip0">>}

Message(response_code, authoritative, answers, name_servers, additionals) ==
    [ok |-> TRUE, error |-> "", response_code |-> response_code,
     authoritative |-> authoritative, answers |-> answers,
     name_servers |-> name_servers, additionals |-> additionals]

QueryFailed(kind) ==
    [ok |-> FALSE, error |-> kind, response_code |-> "NoError",
     authoritative |-> FALSE, answers |-> <<>>, name_servers |-> <<>>,
     additionals |-> <<>>]

\* the table of test_resolve: FakeBackend::query looks (target, name, type)
\* up and fails with ServFail when there is no message for it
TestAB == <<"a", "b">>
TestNsEF == <<"ns", "e", "f">>
TestNsCD == <<"ns", "c", "d">>
TestIps == {"10.0.0.1", "10.0.0.2", "10.0.0.3"}

refer(nameservers, glue) == Message("NoError", FALSE, <<>>, nameservers, glue)

answer(record) == Message("NoError", TRUE, <<record>>, <<>>, <<>>)

FakeBackendQuery(target, name, record_type) ==
    LET key == <<target, to_lowercase(name), record_type>> IN
    CASE key = <<"10.0.0.1", TestAB, "A">> ->
            refer(<<RecNS(<<"b">>, TestNsEF, 0)>>, <<RecA(TestNsEF, "10.0.0.2", 0)>>)
      [] key = <<"10.0.0.2", TestAB, "A">> ->
            refer(<<RecNS(TestAB, TestNsCD, 0)>>, <<>>)
      [] key = <<"10.0.0.1", TestNsCD, "A">> ->
            refer(<<RecNS(<<"c", "d">>, TestNsCD, 0)>>,
                  <<RecA(TestNsCD, "10.0.0.3", 0)>>)
      [] key = <<"10.0.0.3", TestNsCD, "A">> ->
            answer(RecA(TestNsCD, "10.0.0.3", 0))
      [] key = <<"10.0.0.3", TestAB, "A">> ->
            answer(RecA(TestAB, "10.0.0.42", 0))
      [] OTHER -> QueryFailed("ServFail")

\* what the servers outside the test table can come back with
AnyResponses(to_resolve) ==
    {QueryFailed("IOError"), QueryFailed("ProtocolError")}
    \cup {Message("NXDomain", FALSE, <<>>, <<>>, <<>>),
          Message("NXDomain", TRUE, <<RecA(to_resolve, "ip2", 1)>>,
                  <<RecNS(Zone, HostB, 1)>>, <<RecA(HostB, "ip2", 1)>>)}
    \cup {Message("NoError", TRUE, <<RecA(to_resolve, "ip2", 0)>>, <<>>, <<>>)}
    \cup {Message("NoError", TRUE, <<RecA(to_resolve, "ip3", 1)>>, <<>>, <<>>) :
            h \in {to_resolve} \cap CachedHosts}
    \cup {Message("NoError", TRUE,
                  <<RecA(to_resolve, "ip3", 1), RecA(to_resolve, "ip2", 0)>>,
                  <<>>, <<>>) : h \in {to_resolve} \cap CachedHosts}
    \cup {Message("NoError", FALSE, <<>>, <<RecNS(Zone, h, 0)>>, <<>>) :
            h \in Delegates(to_resolve)}
    \cup {Message("NoError", FALSE, <<>>, <<RecNS(Zone, HostB, 1)>>,
                  <<RecA(HostB, "ip2", 1)>>)}
    \cup {Message("NoError", FALSE, <<>>, <<>>, <<>>),
          Message("NoError", TRUE, <<>>, <<RecA(Zone, "ip2", 0)>>, <<>>)}
    \* an answer that goes on with a record of another owner
    \cup {Message("NoError", TRUE, <<RecA(h, "ip3", 1), RecA(Victim, "ip3", 1)>>,
                  <<>>, <<>>) : h \in {to_resolve} \cap CachedHosts}
    \* a referral whose glue names a host that is no name server of it
    \cup {Message("NoError", FALSE, <<>>, <<RecNS(Zone, HostB, 1)>>,
                  <<RecA(HostB, "ip5", 1), RecA(Victim, "ip5", 1)>>)}
    \* answers without the authoritative bit
    \cup {Message("NoError", FALSE, <<RecA(to_resolve, "ip6", 1)>>,
                  <<RecNS(Zone, HostB, 0)>>, <<RecA(HostB, "ip9", 0)>>)}
    \* answers of several records, the last one with or without an address
    \cup {Message("NoError", TRUE, <<RecA(h, "ip7", 0), RecA(h, "ip8", 0)>>,
                  <<>>, <<>>) : h \in {to_resolve} \cap ListedHosts}
    \cup {Message("NoError", TRUE, <<RecA(h, "ip7", 0), RecNS(h, HostA, 0)>>,
                  <<>>, <<>>) : h \in {to_resolve} \cap ListedHosts}

\* what the server "ip4" can come back with: it fails, denies the name,
\* answers with its own address, delegates HostA to HostB and HostB to
\* HostA in upper case, without glue, or refers to itself
SmallResponses(to_resolve) ==
    {QueryFailed("IOError"), QueryFailed("ProtocolError"),
     Message("NXDomain", FALSE, <<>>, <<>>, <<>>),
     Message("NoError", TRUE, <<RecA(to_resolve, "ip4", 1)>>, <<>>, <<>>),
     Message("NoError", FALSE, <<>>,
             <<RecNS(Zone, IF NameEq(to_resolve, HostA) THEN HostB ELSE HostAUpper, 0)>>,
             <<>>),
     \* an answer that must not be cached
     Message("NoError", TRUE, <<RecA(to_resolve, "ip4", 0)>>, <<>>, <<>>),
     \* a referral to a name server at the server's own address
     Message("NoError", FALSE, <<>>, <<RecNS(Zone, HostB, 0)>>,
             <<RecA(HostB, "ip4", 0)>>)}

\* what the server "ip0" can come back with: what "ip4" can, or a referral
\* to two name servers, itself and "ip4"
TwoServerResponses(to_resolve) ==
    SmallResponses(to_resolve)
    \cup {Message("NoError", FALSE, <<>>,
                  <<RecNS(Zone, HostB, 1), RecNS(Zone, HostC, 1)>>,
                  <<RecA(HostB, "ip0", 1), RecA(HostC, "ip4", 1)>>)}

\* Backend::query(target, name, record_type)
Responses(target, to_resolve, record_type) ==
    IF target \in TestIps
    THEN {FakeBackendQuery(target, to_resolve, record_type)}
    ELSE IF target = "ip4" THEN SmallResponses(to_resolve)
    ELSE IF target = "ip0" THEN TwoServerResponses(to_resolve)
    ELSE AnyResponses(to_resolve)

InitResolver ==
    /\ lru = <<>>
    /\ capacity = CACHE_SIZE
    /\ call = [op |-> "none"]
    /\ hist = <<>>
    /\ input = <<>>
    /\ now = 0
    /\ roots \in RootChoices
    /\ seen = <<>>
    /\ stack = <<>>
    /\ ret = None

\* a ResolutionState that takes over the seen list it finds
ResolutionStateKeepsSeen == seen

\* ResolutionState::new: seen: Vec::new()
ResolutionStateNew == <<>>

\* RecursiveResolver::resolve: a fresh ResolutionState and the call of
\* resolve_inner at depth 1
Resolve(to_resolve, record_type) ==
    /\ stack = <<>>
    /\ seen' = ResolutionStateNew
    /\ stack' = <<Frame(to_resolve, record_type, 1)>>
    /\ ret' = None
    /\ UNCHANGED <<lru, capacity, call, hist, input, now, roots>>

\* resolve_inner from its entry to the choice of the candidate provider
ResolveInnerEnter ==
    /\ stack # <<>>
    /\ Top.pc = "enter"
    /\ IF too_deep(Top.depth)
       THEN /\ Return(ServFail("Refusing to recurse deeper than 5"))
            /\ UNCHANGED <<lru, seen, now>>
       ELSE IF seen_contains(seen, Top.to_resolve, Top.record_type)
       THEN /\ Return(ServFailSeenTwice(<<Top.to_resolve, Top.record_type>>))
            /\ UNCHANGED <<lru, seen, now>>
       ELSE /\ InstantNow
            /\ LET got == get_best_record(lru, Query(Top.to_resolve, Top.record_type),
                                          now')
               IN  /\ seen' = Append(seen, <<Top.to_resolve, Top.record_type>>)
                   /\ lru' = got.lru
                   /\ IF got.resp.kind = "Authoritative"
                      THEN Return(Ok(got.resp.records))
                      ELSE /\ \E candidates \in
                                 (IF got.resp.kind = "Referral"
                                  THEN NsProviderNew(got.resp.records, got.resp.glue)
                                  ELSE RootsProviderNew(roots)) :
                                 stack' = SetTop([Top EXCEPT !.pc = "next",
                                                             !.candidates = candidates])
                           /\ ret' = ret
    /\ UNCHANGED <<capacity, call, hist, input, roots>>

\* candidates.next() and target_to_ip up to the nested call of resolve_inner
NextTarget ==
    /\ stack # <<>>
    /\ Top.pc = "next"
    /\ LET next == ProviderNext(Top.candidates) IN
       IF next.target = None
       THEN Return(ServFail("no more nameservers to try"))
       ELSE LET target == next.target[1] IN
            IF ~target.ok THEN Return(target.err)
            ELSE IF target.kind = "Ip"
            THEN /\ stack' = SetTop([Top EXCEPT !.pc = "query",
                                                !.candidates = next.candidates,
                                                !.target = target.ip])
                 /\ ret' = ret
            ELSE /\ stack' = Append(SetTop([Top EXCEPT !.pc = "await_sub",
                                                       !.candidates = next.candidates]),
                                    Frame(target.name, "A", Top.depth + 1))
                 /\ ret' = ret
    /\ UNCHANGED <<lru, capacity, call, hist, input, now, roots, seen>>

\* target_to_ip once the nested resolve_inner has returned
TargetToIp ==
    /\ stack # <<>>
    /\ Top.pc = "await_sub"
    /\ ret # None
    /\ IF ~ret[1].ok THEN Return(ret[1])
       ELSE LET ip == first_ip(ret[1].records) IN
            IF ~ip.ok THEN Return(ip.err)
            ELSE /\ stack' = SetTop([Top EXCEPT !.pc = "query", !.target = ip.ip])
                 /\ ret' = None
    /\ UNCHANGED <<lru, capacity, call, hist, input, now, roots, seen>>

\* backend.query(target, to_resolve, record_type): the exchange completes
BackendQuery ==
    /\ stack # <<>>
    /\ Top.pc = "query"
    /\ \E message \in Responses(Top.target, Top.to_resolve, Top.record_type) :
          stack' = SetTop([Top EXCEPT !.pc = "response", !.message = Some(message)])
    /\ UNCHANGED <<lru, capacity, call, hist, input, now, roots, seen, ret>>

\* resolve_inner that goes on to the next candidate of its provider when the
\* backend fails, where the code returns the error
ClassifyRetriesOnError ==
    /\ stack # <<>>
    /\ Top.pc = "response"
    /\ LET message == Top.message[1] IN
       IF classify(message) = "Err"
       THEN /\ stack' = SetTop([Top EXCEPT !.pc = "next", !.message = None,
                                           !.target = ""])
            /\ ret' = ret
            /\ UNCHANGED <<lru, now>>
       ELSE IF classify(message) = "NxDomain"
       THEN Return(NxDomain) /\ UNCHANGED <<lru, now>>
       ELSE IF classify(message) = "Answer"
       THEN /\ InstantNow
            /\ lru' = store(lru, capacity, Query(Top.to_resolve, Top.record_type),
                            message.answers, now')
            /\ Return(Ok(message.answers))
       ELSE /\ InstantNow
            /\ lru' \in store_referral(lru, capacity, message.name_servers,
                                       message.additionals, Top.to_resolve, now')
            /\ \E candidates \in
                  NsProviderNew(message.name_servers, message.additionals) :
                  stack' = SetTop([Top EXCEPT !.pc = "next", !.message = None,
                                              !.target = "",
                                              !.candidates = candidates])
            /\ ret' = ret
    /\ UNCHANGED <<capacity, call, hist, input, roots, seen>>

\* resolve_inner from the backend's result to the return or the next round
Classify ==
    /\ stack # <<>>
    /\ Top.pc = "response"
    /\ LET message == Top.message[1] IN
       IF classify(message) = "Err"
       THEN Return(BackendError(message.error)) /\ UNCHANGED <<lru, now>>
       ELSE IF classify(message) = "NxDomain"
       THEN Return(NxDomain) /\ UNCHANGED <<lru, now>>
       ELSE IF classify(message) = "Answer"
       THEN /\ InstantNow
            /\ lru' = store(lru, capacity, Query(Top.to_resolve, Top.record_type),
                            message.answers, now')
            /\ Return(Ok(message.answers))
       ELSE /\ InstantNow
            /\ lru' \in store_referral(lru, capacity, message.name_servers,
                                       message.additionals, Top.to_resolve, now')
            /\ \E candidates \in
                  NsProviderNew(message.name_servers, message.additionals) :
                  stack' = SetTop([Top EXCEPT !.pc = "next", !.message = None,
                                              !.target = "",
                                              !.candidates = candidates])
            /\ ret' = ret
    /\ UNCHANGED <<capacity, call, hist, input, roots, seen>>

Next ==
    \/ \E to_resolve \in Queried : Resolve(to_resolve, "A")
    \/ ResolveInnerEnter
    \/ NextTarget
    \/ TargetToIp
    \/ BackendQuery
    \/ Classify

Spec == InitResolver /\ [][Next]_vars

(***************************************************************************)
(* The daemon (daemon.rs): resolve(message, resolver) builds the response  *)
(* to one request; call holds the request and the response being built.    *)
(***************************************************************************)
RequestIds == {4711, 4712}

Questions == {[name |-> HostA, query_type |-> "A"], [name |-> HostB, query_type |-> "A"]}

Requests == [id : RequestIds, query : {None} \cup {Some(q) : q \in Questions}]

\* Message::new() without the id of the request
message_new_without_id(message) == [id |-> 0, response_code |-> "NoError", answers |-> <<>>]

\* Message::new() and response.set_id(message.id())
message_new(message) ==
    [id |-> message.id, response_code |-> "NoError", answers |-> <<>>]

\* the match on the result of resolver.resolve without the arm for NxDomain
response_for_without_nxdomain(response, result) ==
    IF result.ok THEN [response EXCEPT !.answers = result.records]
    ELSE [response EXCEPT !.response_code = "ServFail"]

\* the match on the result of resolver.resolve
response_for(response, result) ==
    IF result.ok THEN [response EXCEPT !.answers = result.records]
    ELSE IF result.error = "NxDomain"
    THEN [response EXCEPT !.response_code = "NXDomain"]
    ELSE [response EXCEPT !.response_code = "ServFail"]

InitDaemon ==
    /\ lru = <<>>
    /\ capacity = CACHE_SIZE
    /\ call = [op |-> "none"]
    /\ hist = <<>>
    /\ input = <<>>
    /\ now = 0
    /\ roots = <<"ip4">>
    /\ seen = <<>>
    /\ stack = <<>>
    /\ ret = None

\* daemon::resolve up to its return without a question, or to the call of
\* resolver.resolve
DaemonResolve(message) ==
    /\ call.op \in {"none", "responded"}
    /\ stack = <<>>
    /\ IF message.query = None
       THEN /\ call' = [op |-> "responded", message |-> message,
                        response |-> [message_new(message) EXCEPT
                                         !.response_code = "FormErr"]]
            /\ UNCHANGED <<seen, stack, ret>>
       ELSE /\ call' = [op |-> "resolving", message |-> message,
                        response |-> message_new(message)]
            /\ seen' = ResolutionStateNew
            /\ stack' = <<Frame(message.query[1].name, message.query[1].query_type, 1)>>
            /\ ret' = None
    /\ UNCHANGED <<lru, capacity, hist, input, now, roots>>

\* daemon::resolve once resolver.resolve has returned
DaemonRespond ==
    /\ call.op = "resolving"
    /\ stack = <<>>
    /\ ret # None
    /\ call' = [call EXCEPT !.op = "responded",
                            !.response = response_for(call.response, ret[1])]
    /\ UNCHANGED <<lru, capacity, hist, input, now, roots, seen, stack, ret>>

NextDaemon ==
    \/ \E message \in Requests : DaemonResolve(message)
    \/ DaemonRespond
    \/ ResolveInnerEnter
    \/ NextTarget
    \/ TargetToIp
    \/ BackendQuery
    \/ Classify

SpecDaemon == InitDaemon /\ [][NextDaemon]_vars

(***************************************************************************)
(* Two resolve calls on one resolver.  The call that is running has its    *)
(* ResolutionState and its chain of resolve_inner invocations in seen,     *)
(* stack and ret; those of the call that is waiting are in hist.  The      *)
(* cache and the roots belong to the resolver and are shared.              *)
(***************************************************************************)
InitTwo ==
    /\ lru = <<>>
    /\ capacity = CACHE_SIZE
    /\ call = [op |-> "none"]
    /\ hist = [stack |-> <<>>, seen |-> <<>>, ret |-> None]
    /\ input = <<>>
    /\ now = 0
    /\ roots = <<"ip4">>
    /\ seen = <<>>
    /\ stack = <<>>
    /\ ret = None

\* the scheduler lets the other call run
Switch ==
    /\ hist' = [stack |-> stack, seen |-> seen, ret |-> ret]
    /\ stack' = hist.stack
    /\ seen' = hist.seen
    /\ ret' = hist.ret
    /\ UNCHANGED <<lru, capacity, call, input, now, roots>>

NextTwo ==
    \/ \E to_resolve \in {HostA, HostB} : Resolve(to_resolve, "A")
    \/ Switch
    \/ ResolveInnerEnter
    \/ NextTarget
    \/ TargetToIp
    \/ BackendQuery
    \/ Classify

SpecTwo == InitTwo /\ [][NextTwo]_vars


(***************************************************************************)
(* Properties of the resolver                                              *)
(***************************************************************************)
Popped == SubSeq(stack, 1, Len(stack) - 1)

IsPrefix(s, t) == Len(s) <= Len(t) /\ SubSeq(t, 1, Len(s)) = s

\* resolve_inner is about to run its first statement
AtEntry == stack # <<>> /\ Top.pc = "enter"

\* the pair of the invocation on top of the stack is in seen, the names
\* compared without regard to case
PairSeen ==
    \E i \in 1..Len(seen) : /\ to_lowercase(seen[i][1]) = to_lowercase(Top.to_resolve)
                            /\ seen[i][2] = Top.record_type

\* the invocation on top of the stack returns value and has touched neither
\* the seen list, nor the cache, nor the clock
ReturnsUntouched(value) ==
    /\ ret' = Some(value)
    /\ stack' = Popped
    /\ seen' = seen
    /\ lru' = lru
    /\ now' = now

SeenOnlyGrows == stack # <<>> => IsPrefix(seen, seen')

\* C1, as stated: within one top-level resolve the seen list only grows, and
\* every entry into resolve_inner with a pair already in seen returns the
\* ServFail that names the pair, before the cache is read and without a
\* backend call -- at whatever depth the entry happens.
C1_SeenTwiceAtAnyDepth ==
    [][/\ SeenOnlyGrows
       /\ (AtEntry /\ PairSeen) =>
             ReturnsUntouched(ServFailSeenTwice(<<Top.to_resolve, Top.record_type>>))]_vars

\* C1, amended: within one top-level resolve the seen list only grows; an
\* entry at a depth within the limit with a pair already in seen returns the
\* ServFail that names the pair, and an entry beyond the limit with such a
\* pair returns a ServFail as well (that of the depth check, which comes
\* first); either way before the cache is read and without a backend call.
C1_SeenTwiceWithinDepth ==
    [][/\ SeenOnlyGrows
       /\ (AtEntry /\ PairSeen /\ Top.depth <= MAX_RECURSION_DEPTH) =>
             ReturnsUntouched(ServFailSeenTwice(<<Top.to_resolve, Top.record_type>>))
       /\ (AtEntry /\ PairSeen /\ Top.depth > MAX_RECURSION_DEPTH) =>
             ReturnsUntouched(ServFail("Refusing to recurse deeper than 5"))]_vars

\* a sub-resolution of a name that differs from a seen one in case only was
\* refused, the error has travelled to an outer invocation, and seen still
\* holds the pairs of the invocations that have returned
C1_Witness ==
    /\ ret = Some(ServFailSeenTwice(<<HostAUpper, "A">>))
    /\ Len(seen) >= 2
    /\ Len(stack) < Len(seen)
    /\ stack # <<>>

NestingMatchesDepth ==
    \A i \in 1..Len(stack) :
        /\ stack[i].depth = i
        /\ stack[i].pc \in {"query", "response"} => i <= MAX_RECURSION_DEPTH

\* C2: the top-level invocation runs at depth 1 and every sub-resolution one
\* deeper than the invocation that awaits it; a backend call is only ever
\* issued by an invocation at depth 5 or less; an invocation entered with a
\* depth above 5 returns ServFail and touches neither seen, cache nor backend.
C2_DepthBounded ==
    [][/\ NestingMatchesDepth'
       /\ (AtEntry /\ Top.depth > MAX_RECURSION_DEPTH) =>
             /\ ret' # None
             /\ ret'[1].error = "ServFail"
             /\ stack' = Popped
             /\ seen' = seen
             /\ lru' = lru
             /\ now' = now]_vars

\* the sixth nested invocation was refused and the five below it are alive
C2_Witness ==
    /\ ret = Some(ServFail("Refusing to recurse deeper than 5"))
    /\ Len(stack) = MAX_RECURSION_DEPTH
    /\ Len(seen) = MAX_RECURSION_DEPTH

\* the backend's result is in, and resolve_inner is about to match on it
AtResponse == stack # <<>> /\ Top.pc = "response"

\* C5: a response with code NXDomain makes resolve_inner return NxDomain at
\* once, whatever its authoritative bit and sections, with the cache as it
\* was and the invocation over (no further target, no further query).
C5_NxDomainReturnsAtOnce ==
    [][(/\ AtResponse
        /\ Top.message[1].ok
        /\ Top.message[1].response_code = "NXDomain") =>
            /\ ret' = Some(NxDomain)
            /\ stack' = Popped
            /\ lru' = lru
            /\ seen' = seen]_vars

\* a top-level resolve ended in NxDomain while the cache held records
C5_Witness ==
    /\ ret = Some(NxDomain)
    /\ stack = <<>>
    /\ lru # <<>>

\* C6: an error of backend.query is returned as it is by the invocation that
\* made the call and by every invocation awaiting it; none of them asks the
\* provider for another target, queries again or writes to the cache.
C6_BackendErrorPropagates ==
    [][/\ (AtResponse /\ ~Top.message[1].ok) =>
             /\ ret' = Some(BackendError(Top.message[1].error))
             /\ stack' = Popped
             /\ lru' = lru
       /\ (/\ stack # <<>>
           /\ Top.pc = "await_sub"
           /\ ret # None
           /\ ret[1].error \in {"IOError", "ProtocolError"}) =>
             /\ ret' = ret
             /\ stack' = Popped
             /\ lru' = lru]_vars

\* the error of a query made by a sub-resolution has reached the caller of
\* the top-level resolve
C6_Witness ==
    /\ ret = Some(BackendError("IOError"))
    /\ stack = <<>>
    /\ Len(seen) >= 2

\* C7: on entry with a depth within the limit and a pair not yet seen, an
\* unexpired cache entry for exactly the pair is returned with its ttl
\* fields rewritten to the whole seconds it has left; the invocation is over
\* (no backend call) and the cache holds the entries it held.
C7_CacheHitReturnsEntry ==
    [][\A i \in 1..Len(lru) :
          (/\ AtEntry
           /\ Top.depth <= MAX_RECURSION_DEPTH
           /\ ~PairSeen
           /\ lru[i].key = [to_resolve |-> to_lowercase(Top.to_resolve),
                            record_type |-> Top.record_type]
           /\ now' < lru[i].valid_before) =>
              /\ ret' = Some(Ok([j \in 1..Len(lru[i].value) |->
                                   [lru[i].value[j] EXCEPT
                                      !.ttl = (lru[i].valid_before - now')
                                                \div TicksPerSec]]))
              /\ stack' = Popped
              /\ Entries(lru') = Entries(lru)
              /\ Len(lru') = Len(lru)]_vars

\* a top-level resolve was answered from an entry that is still unexpired,
\* with a ttl smaller than the one the record was stored with
C7_Witness ==
    /\ ret = Some(Ok(<<RecA(HostA, "ip3", 0)>>))
    /\ stack = <<>>
    /\ seen = <<<<HostA, "A">>>>
    /\ \E i \in 1..Len(lru) : /\ lru[i].key = Query(HostA, "A")
                              /\ now < lru[i].valid_before

\* C8: a response that is not NXDomain, has the authoritative bit and a
\* non-empty answer section makes resolve_inner return that answer section,
\* record for record, and the invocation is over.
C8_FinalAnswerReturned ==
    [][(/\ AtResponse
        /\ Top.message[1].ok
        /\ Top.message[1].response_code # "NXDomain"
        /\ Top.message[1].authoritative
        /\ Top.message[1].answers # <<>>) =>
            /\ ret' = Some(Ok(Top.message[1].answers))
            /\ stack' = Popped]_vars

\* a top-level resolve returned an answer that no cache entry can produce
C8_Witness ==
    /\ ret = Some(Ok(<<RecA(HostB, "ip2", 0)>>))
    /\ stack = <<>>
    /\ seen = <<<<HostB, "A">>>>

\* the provider of the invocation on top of the stack has nothing left
Exhausted == stack # <<>> /\ Top.pc = "next" /\ Top.candidates.items = <<>>

\* C9: asking an exhausted provider for a target makes resolve_inner return
\* ServFail("no more nameservers to try") without a backend call; and the
\* provider is exhausted from the start when the roots list is empty and the
\* cache has nothing, or when the referral has no record of type NS.
C9_ExhaustedProviderServFail ==
    [][/\ Exhausted =>
             /\ ret' = Some(ServFail("no more nameservers to try"))
             /\ stack' = Popped
             /\ lru' = lru
       /\ (/\ AtResponse
           /\ Top.message[1].ok
           /\ Top.message[1].response_code # "NXDomain"
           /\ ~(Top.message[1].authoritative /\ Top.message[1].answers # <<>>)
           /\ \A i \in 1..Len(Top.message[1].name_servers) :
                 Top.message[1].name_servers[i].rtype # "NS") => Exhausted'
       /\ (/\ AtEntry
           /\ Top.depth <= MAX_RECURSION_DEPTH
           /\ ~PairSeen
           /\ lru = <<>>
           /\ roots = <<>>) => Exhausted']_vars

\* with a root to ask, a referral without a record of type NS ended the
\* top-level resolve
C9_Witness ==
    /\ ret = Some(ServFail("no more nameservers to try"))
    /\ stack = <<>>
    /\ roots # <<>>

\* C18: with roots = [10.0.0.1] and the table of test_resolve, resolve(a.b, A)
\* on an empty cache returns [a.b A 10.0.0.42]; the referrals with glue are
\* followed without a sub-resolution and the only sub-resolution is that of
\* the glueless ns.c.d, which starts from the roots again.
C18_TestResolve ==
    (/\ roots = <<"10.0.0.1">>
     /\ seen # <<>>
     /\ seen[1] = <<TestAB, "A">>) =>
        /\ lru = <<>>
        /\ Len(stack) <= 2
        /\ Len(stack) = 2 =>
              /\ stack[2].to_resolve = TestNsCD
              /\ stack[2].pc = "query" => stack[2].target \in {"10.0.0.1", "10.0.0.3"}
        /\ (stack = <<>> /\ ret # None) =>
              ret = Some(Ok(<<RecA(TestAB, "10.0.0.42", 0)>>))

\* the test's resolve has returned the address, having sub-resolved ns.c.d
C18_Witness ==
    /\ roots = <<"10.0.0.1">>
    /\ stack = <<>>
    /\ ret = Some(Ok(<<RecA(TestAB, "10.0.0.42", 0)>>))
    /\ seen = << <<TestAB, "A">>, <<TestNsCD, "A">> >>
    /\ lru = <<>>

DaemonStep == call' # call

C17_OutcomeMapping ==
    [][(DaemonStep /\ call.op = "resolving") =>
          /\ call'.op = "responded"
          /\ call'.message = call.message
          /\ ret # None
          /\ ret[1].ok =>
                call'.response = [id |-> call.message.id, response_code |-> "NoError",
                                  answers |-> ret[1].records]
          /\ (~ret[1].ok /\ ret[1].error = "NxDomain") =>
                call'.response = [id |-> call.message.id, response_code |-> "NXDomain",
                                  answers |-> <<>>]
          /\ (~ret[1].ok /\ ret[1].error \in {"ServFail", "IOError", "ProtocolError"}) =>
                call'.response = [id |-> call.message.id, response_code |-> "ServFail",
                                  answers |-> <<>>]
          /\ ~ret[1].ok => ret[1].error \in {"NxDomain", "ServFail", "IOError",
                                             "ProtocolError"}]_vars

\* the resolver came back with NxDomain and the response says NXDomain
C17_Witness ==
    /\ call.op = "responded"
    /\ call.message.query # None
    /\ ret = Some(NxDomain)
    /\ call.response = [id |-> call.message.id, response_code |-> "NXDomain",
                        answers |-> <<>>]

\* the pair is in the seen list s, names compared without regard to case
InSeen(s, pair) ==
    \E i \in 1..Len(s) : /\ to_lowercase(s[i][1]) = to_lowercase(pair[1])
                         /\ s[i][2] = pair[2]

SeenTwice(result) ==
    /\ result # None
    /\ ~result[1].ok
    /\ result[1].message = "Broken DNS config, seen twice"

\* the step belongs to the running call and is not the start of a call
RunningStep == hist' = hist /\ stack # <<>>

\* C19: seen and depth belong to one resolve call.  A call starts with an
\* empty seen list, whatever the other call or an earlier call has entered;
\* a step of the running call leaves the seen list, the invocations and the
\* result of the waiting call alone, and adds to its own seen list only the
\* pair it is entering; the depth of an invocation is its position in its own
\* call's chain.  So an entry at depth 1, and an entry of a pair that only the
\* other call has in its seen list, never fails with the seen-twice ServFail.
C19_SeenIsPerCall ==
    [][/\ (hist' = hist /\ stack = <<>> /\ stack' # <<>>) =>
             /\ seen' = <<>>
             /\ stack'[1].depth = 1
       /\ RunningStep =>
             /\ \/ seen' = seen
                \/ AtEntry /\ seen' = Append(seen, <<Top.to_resolve, Top.record_type>>)
             /\ \A i \in 1..Len(stack') : stack'[i].depth = i
       /\ hist' # hist =>
             /\ hist' = [stack |-> stack, seen |-> seen, ret |-> ret]
             /\ <<stack', seen', ret'>> = <<hist.stack, hist.seen, hist.ret>>
       /\ (RunningStep /\ AtEntry /\ Top.depth = 1) => ~SeenTwice(ret')
       /\ (/\ RunningStep
           /\ AtEntry
           /\ InSeen(hist.seen, <<Top.to_resolve, Top.record_type>>)
           /\ ~InSeen(seen, <<Top.to_resolve, Top.record_type>>)) => ~SeenTwice(ret')]_vars

\* both calls are under way, the running one has entered a pair that the
\* waiting one had entered before, and neither has failed
C19_Witness ==
    /\ stack # <<>>
    /\ hist.stack # <<>>
    /\ ret = None
    /\ hist.ret = None
    /\ Len(stack) >= 2
    /\ Top.pc = "next"
    /\ InSeen(hist.seen, <<Top.to_resolve, Top.record_type>>)
    /\ InSeen(seen, <<Top.to_resolve, Top.record_type>>)
    /\ seen # hist.seen

\* the cache l holds the group q of records, written at time t
Written(l, records, q, t) ==
    \E i \in 1..Len(l) :
        l[i] = [key |-> q, value |-> Group(records, q),
                valid_before |-> t + SmallestTtl(Group(records, q)) * TicksPerSec]

\* the groups of a section that store keeps
Storable(records) ==
    {q \in GroupKeys(records) : SmallestTtl(Group(records, q)) > 0}

\* one invocation is active, those under it wait for their sub-resolution,
\* and a frame holds a response exactly while it is matching on it
OneActivity ==
    \A i \in 1..Len(stack) :
        /\ i < Len(stack) => stack[i].pc = "await_sub"
        /\ stack[i].message # None <=> stack[i].pc = "response"

\* the step asks the provider of the top invocation for its next target
AsksProvider ==
    /\ stack # <<>>
    /\ Top.pc = "next"
    /\ stack' # stack

\* the step replaces the provider of the top invocation after a response
ReplacesProvider ==
    /\ AtResponse
    /\ Len(stack') = Len(stack)
    /\ stack'[Len(stack)].pc = "next"

\* the step hands records to the caller after a response
ReturnsRecords ==
    /\ AtResponse
    /\ stack' = Popped
    /\ ret' # None
    /\ ret'[1].ok

\* C21: the steps of one resolution are sequential: only the top invocation
\* is active; the provider is asked for a target only while no exchange is
\* outstanding, and an exchange ends with the response and the provider as
\* it was; when the provider is replaced after a referral, the groups that
\* store_referral keeps are in the cache; when records are returned after
\* an answer, the answer (of positive ttl) is in the cache.
C21_StepsInOrder ==
    [][/\ OneActivity /\ OneActivity'
       /\ AsksProvider => Top.message = None
       /\ (stack # <<>> /\ Top.pc = "query") =>
             /\ Len(stack') = Len(stack)
             /\ stack'[Len(stack)].pc = "response"
             /\ stack'[Len(stack)].message # None
             /\ stack'[Len(stack)].candidates = Top.candidates
       /\ (ReplacesProvider
             /\ ~Rejected(Top.message[1].name_servers, Top.message[1].additionals,
                          Top.to_resolve)) =>
             /\ \A q \in Storable(Top.message[1].name_servers) :
                   Written(lru', Top.message[1].name_servers, q, now')
             /\ \A q \in Storable(Top.message[1].additionals) :
                   Written(lru', Top.message[1].additionals, q, now')
       /\ (ReturnsRecords /\ SmallestTtl(ret'[1].records) > 0) =>
             \E i \in 1..Len(lru') :
                 lru'[i] = [key |-> Query(Top.to_resolve, Top.record_type),
                            value |-> ret'[1].records,
                            valid_before |->
                               now' + SmallestTtl(ret'[1].records) * TicksPerSec]]_vars

\* a referral with glue has been stored and its provider is in place, and
\* later an answer of ttl 1 was stored and returned to the caller of resolve
C21_Witness ==
    /\ stack = <<>>
    /\ ret = Some(Ok(<<RecA(HostA, "ip3", 1)>>))
    /\ \E i \in 1..Len(lru) : lru[i].key = Query(HostA, "A")
    /\ \E i \in 1..Len(lru) : lru[i].key = Query(Zone, "NS")
    /\ \E i \in 1..Len(lru) : lru[i].key = Query(HostB, "A")

\* the response on top of the stack is neither an error, nor NXDomain, nor a
\* final answer: resolve_inner takes it for a referral
ReferralResponse ==
    /\ AtResponse
    /\ Top.message[1].ok
    /\ Top.message[1].response_code # "NXDomain"
    /\ ~(Top.message[1].authoritative /\ Top.message[1].answers # <<>>)

\* the top invocation goes on with the NsProvider built from the sections of
\* the response: its NS-typed authority records in some order, and its glue
ContinuesWithNsProvider ==
    /\ ret' = ret
    /\ seen' = seen
    /\ Len(stack') = Len(stack)
    /\ SubSeq(stack', 1, Len(stack) - 1) = Popped
    /\ stack'[Len(stack)].pc = "next"
    /\ stack'[Len(stack)].candidates \in
          NsProviderNew(Top.message[1].name_servers, Top.message[1].additionals)

\* C22: a referral that fails the eligibility check (an NS owner that is no
\* zone of the name asked for, or glue for a host that is no NS target of it)
\* is no error: the cache stays as it was, and the invocation goes on as for
\* any referral, with the NsProvider built from the response.
C22_IneligibleReferralContinues ==
    [][/\ (ReferralResponse
             /\ Rejected(Top.message[1].name_servers, Top.message[1].additionals,
                         Top.to_resolve)) =>
             /\ lru' = lru
             /\ ContinuesWithNsProvider
       /\ ReferralResponse => ContinuesWithNsProvider]_vars

\* the glue of the rejected referral gave the address of the next query, and
\* nothing of it is in the cache
C22_Witness ==
    /\ stack # <<>>
    /\ Top.pc = "query"
    /\ Top.target = "ip5"
    /\ lru = <<>>

\* the provider of the top invocation is about to be asked for a target
AtNext == stack # <<>> /\ Top.pc = "next"

\* the nested resolve_inner has returned to target_to_ip
AtSubResult == stack # <<>> /\ Top.pc = "await_sub" /\ ret # None

LastRecord(records) == records[Len(records)]

\* the top invocation goes on to query the server at ip
QueriesNext(ip) ==
    /\ Len(stack') = Len(stack)
    /\ stack'[Len(stack)].pc = "query"
    /\ stack'[Len(stack)].target = ip
    /\ seen' = seen

\* C23: a Target::Ip is the address of the next query as it is; a
\* Target::Name(n) starts a nested resolve_inner(n, A) one level deeper on the
\* same seen list; the address is that of the last record of its result; an
\* empty result or a last record without an A address ends the enclosing
\* invocation with ServFail, and an error of the nested invocation ends it
\* with that same error, the provider not being asked again.
C23_TargetToIp ==
    [][/\ (AtNext /\ ProviderNext(Top.candidates).target # None) =>
             LET target == ProviderNext(Top.candidates).target[1] IN
             /\ (target.ok /\ target.kind = "Ip") => QueriesNext(target.ip)
             /\ (target.ok /\ target.kind = "Name") =>
                   /\ Len(stack') = Len(stack) + 1
                   /\ stack'[Len(stack)].pc = "await_sub"
                   /\ stack'[Len(stack')].to_resolve = target.name
                   /\ stack'[Len(stack')].record_type = "A"
                   /\ stack'[Len(stack')].depth = Top.depth + 1
                   /\ stack'[Len(stack')].pc = "enter"
                   /\ seen' = seen
       /\ (AtSubResult /\ ret[1].ok) =>
             IF ret[1].records # <<>> /\ LastRecord(ret[1].records).rdata.kind = "A"
             THEN QueriesNext(LastRecord(ret[1].records).rdata.ip)
             ELSE /\ stack' = Popped
                  /\ ret' # None
                  /\ ret'[1].error = "ServFail"
       /\ (AtSubResult /\ ~ret[1].ok) =>
             /\ stack' = Popped
             /\ ret' = ret
             /\ lru' = lru]_vars

\* the nested resolution returned two records and the query goes to the
\* address of the second
C23_Witness ==
    /\ Len(stack) = 1
    /\ Top.pc = "query"
    /\ Top.target = "ip8"
    /\ Len(seen) = 2

\* the nested resolution returned records that end with one without an
\* address, and the enclosing invocation failed
C23_WitnessNoAddress ==
    /\ stack = <<>>
    /\ ret = Some(ServFail("no rdata, or wrong type of rdata"))

\* every entry of the cache after the step was there before or is a group of
\* the authority or of the additional section of the response
OnlyReferralSectionsStored ==
    \A i \in 1..Len(lru') :
        \/ \E j \in 1..Len(lru) : lru[j] = lru'[i]
        \/ lru'[i].value = Group(Top.message[1].name_servers, lru'[i].key)
        \/ lru'[i].value = Group(Top.message[1].additionals, lru'[i].key)

\* C27: is_final holds of a response exactly when its authoritative bit is
\* set and its answer section is not empty; a response without the NXDomain
\* code is returned as the answer when it is final, and is otherwise
\* (authoritative without answers, answers without the bit, neither) taken
\* for a referral: the provider is built from its authority and additional
\* sections, nothing but groups of these two sections is stored, and its
\* answer section is neither returned nor stored.
C27_FinalExactlyWhenAuthoritativeAnswer ==
    [][(AtResponse /\ Top.message[1].ok) =>
          LET message == Top.message[1] IN
          /\ is_final(message) <=> (message.authoritative /\ message.answers # <<>>)
          /\ (message.response_code # "NXDomain"
                /\ message.authoritative /\ message.answers # <<>>) =>
                /\ stack' = Popped
                /\ ret' = Some(Ok(message.answers))
          /\ (message.response_code # "NXDomain"
                /\ ~(message.authoritative /\ message.answers # <<>>)) =>
                /\ ContinuesWithNsProvider
                /\ OnlyReferralSectionsStored]_vars

\* a response with answers but without the authoritative bit was taken for a
\* referral: its glue gave the address of the next query and the answers are
\* not in the cache
C27_Witness ==
    /\ stack # <<>>
    /\ Top.pc = "query"
    /\ Top.target = "ip9"
    /\ \A i \in 1..Len(lru) : lru[i].key # Query(Top.to_resolve, "A")

\* everything a server can come back with to a query for (name, type)
AllResponses(to_resolve, record_type) ==
    AnyResponses(to_resolve) \cup SmallResponses(to_resolve)
    \cup {FakeBackendQuery(target, to_resolve, record_type) : target \in TestIps}

\* the answer sections of the final responses to a query for (name, type)
FinalAnswerSections(to_resolve, record_type) ==
    {message.answers :
        message \in {m \in AllResponses(to_resolve, record_type) :
                        /\ m.ok
                        /\ m.response_code # "NXDomain"
                        /\ m.authoritative
                        /\ m.answers # <<>>}}

\* resolve hands records to its caller
ResolveReturnsRecords ==
    /\ Len(stack) = 1
    /\ stack' = <<>>
    /\ ret' # None
    /\ ret'[1].ok

\* C30: the records resolve returns for (name, type) are the answer section
\* of a final response to a query for (name, type): that of the response this
\* call has just received, or that of a cache entry under (name, type) that
\* has not expired (an entry read at the instant of its expiry is let pass
\* here), with the ttls rewritten; records of the authority or additional
\* section of a referral are never returned.
C30_OnlyFinalAnswersReturned ==
    [][ResolveReturnsRecords =>
          \E answers \in FinalAnswerSections(Top.to_resolve, Top.record_type) :
              \/ /\ AtResponse
                 /\ Top.message[1].answers = answers
                 /\ ret'[1].records = answers
              \/ /\ AtEntry
                 /\ \E i \in 1..Len(lru) :
                       /\ lru[i].key = Query(Top.to_resolve, Top.record_type)
                       /\ lru[i].value = answers
                       /\ now' <= lru[i].valid_before
                 /\ \E ttl \in 0..MaxTime : ret'[1].records = WithTtl(answers, ttl)]_vars

(***************************************************************************)
(* An NsProvider on its own (target.rs): input holds the two sections it   *)
(* was built from, call the provider, hist what next has returned so far.  *)
(***************************************************************************)
MaxNs == 3
MaxNextCalls == 4

\* Record::with(name, RecordType::NS, ttl): an NS record without rdata
RecNSNoRdata(name, ttl) == [name |-> name, rtype |-> "NS", ttl |-> ttl, rdata |-> NoRdata]

\* an A record relabelled by set_rr_type(RecordType::NS)
RecNSWithA(name, ip, ttl) == [RecA(name, ip, ttl) EXCEPT !.rtype = "NS"]

\* an A record that carries no address
RecANoRdata(name, ttl) == [name |-> name, rtype |-> "A", ttl |-> ttl, rdata |-> NoRdata]

ProviderRecords ==
    {RecNS(Zone, Ns1, 1), RecNS(Zone, Ns2, 1), RecA(Zone, "ip1", 1),
     RecNSNoRdata(Zone, 1), RecNSWithA(Zone, "ip1", 1)}

ProviderNameServers == UNION {[1..k -> ProviderRecords] : k \in 0..MaxNs}

ProviderGlue ==
    { <<>>,
      <<RecA(Ns1, "ip1", 1)>>,
      <<RecA(Ns1Upper, "ip1", 1)>>,
      <<RecA(Ns2, "ip3", 1), RecA(Ns1, "ip1", 1), RecA(Ns1, "ip2", 1)>>,
      <<RecANoRdata(Ns1, 1), RecA(Ns1, "ip2", 1)>>,
      <<RecNS(Ns1, Ns2, 1), RecA(Ns2, "ip3", 1)>> }

InitProvider ==
    /\ input \in [nameservers : ProviderNameServers, glue : ProviderGlue]
    /\ \E candidates \in NsProviderNew(input.nameservers, input.glue) :
          call = [op |-> "NsProvider", candidates |-> candidates]
    /\ hist = <<>>
    /\ lru = <<>>
    /\ capacity = CACHE_SIZE
    /\ now = 0
    /\ roots = <<>>
    /\ seen = <<>>
    /\ stack = <<>>
    /\ ret = None

\* one call of next on the provider
NsProviderNext ==
    /\ Len(hist) < MaxNextCalls
    /\ LET next == ProviderNext(call.candidates) IN
       /\ hist' = Append(hist, next.target)
       /\ call' = [call EXCEPT !.candidates = next.candidates]
    /\ UNCHANGED <<lru, capacity, input, now, roots, seen, stack, ret>>

NextProvider == NsProviderNext

SpecProvider == InitProvider /\ [][NextProvider]_vars

\* the positions of the glue records of type A, owned by name, that carry an
\* address
GlueHits(name, glue) ==
    {i \in 1..Len(glue) : /\ glue[i].rtype = "A"
                          /\ to_lowercase(glue[i].name) = to_lowercase(name)
                          /\ glue[i].rdata.kind = "A"}

\* what next returned is what the NS-typed record stands for: a ServFail when
\* its rdata is missing or no NS, else the address of the first glue record
\* for its target, else the name of its target
YieldedFor(yielded, record, glue) ==
    IF record.rdata.kind # "NS"
    THEN ~yielded.ok /\ yielded.err.error = "ServFail"
    ELSE IF GlueHits(record.rdata.target, glue) = {}
    THEN yielded = TargetName(record.rdata.target)
    ELSE \E i \in GlueHits(record.rdata.target, glue) :
            /\ \A j \in GlueHits(record.rdata.target, glue) : i <= j
            /\ yielded = TargetIp(glue[i].rdata.ip)

\* C24: the calls of next on NsProvider::new(nameservers, glue) return, in
\* some order, one result per record of type NS in nameservers, each record
\* used once and the records of other types not at all, and None from then
\* on; the result for a record is Ip(address of the first glue record of type
\* A for its target), Name(target) without such a record, and ServFail when
\* the rdata of the record is missing or not NS.
C24_NsProviderYieldsEachNsOnce ==
    LET records == SelectSeq(input.nameservers, LAMBDA r : r.rtype = "NS")
        n == Len(records)
    IN  /\ \E o \in Orders(1..n) :
              \A i \in 1..Len(hist) :
                  i <= n => /\ hist[i] # None
                            /\ YieldedFor(hist[i][1], records[o[i]], input.glue)
        /\ \A i \in 1..Len(hist) : i > n => hist[i] = None

\* of three records the one of type A was dropped; next gave the address of
\* the first glue record for one target, the name of the other target, and
\* then None twice
C24_Witness ==
    /\ Len(input.nameservers) = 3
    /\ Len(hist) = 4
    /\ \E i \in 1..2 : hist[i] = Some(TargetIp("ip1"))
    /\ \E i \in 1..2 : hist[i] = Some(TargetName(Ns2))
    /\ input.glue = <<RecA(Ns1, "ip1", 1)>>
    /\ hist[3] = None
    /\ hist[4] = None

\* next returned ServFail for an NS record without rdata and went on to the
\* record that was left
C24_WitnessServFail ==
    /\ Len(hist) = 2
    /\ hist[1] = Some(TargetErr(ServFail("no rdata")))
    /\ hist[2] = Some(TargetName(Ns1))

(***************************************************************************)
(* Further properties of the DNS cache                                     *)
(***************************************************************************)
\* the step is a store_referral that follows a store_referral of the same
\* referral at the same time
RepeatedStoreReferral ==
    /\ Called("store_referral")
    /\ call'.res = Some("repeated")

\* C25, as stated: a second store_referral with the same name servers, glue,
\* to_resolve and now leaves the cache with the keys, values and expiries the
\* first one left -- whatever the capacity of the cache.
C25_StoreReferralIdempotent ==
    [][RepeatedStoreReferral => Entries(lru') = Entries(lru)]_vars

\* the groups of the referral of this behaviour are no more than the cache
\* can hold
ReferralFits ==
    Cardinality(GroupKeys(input.name_servers) \cup GroupKeys(input.glue)) <= capacity

\* C25, amended: a second store_referral with the same name servers, glue,
\* to_resolve and now leaves the cache with the keys, values and expiries the
\* first one left, when the referral has no more (owner, type) groups than
\* the cache has capacity; an ineligible referral is not stored either time.
C25_StoreReferralIdempotentWithRoom ==
    [][/\ (RepeatedStoreReferral /\ ReferralFits) => Entries(lru') = Entries(lru)
       /\ (RepeatedStoreReferral
             /\ Rejected(input.name_servers, input.glue, input.to_resolve)) =>
             lru' = lru]_vars

\* a referral of three groups has been stored twice at the same time into a
\* cache of capacity three, and its three entries are there
C25_Witness ==
    /\ call.op = "store_referral"
    /\ call.res = Some("repeated")
    /\ Len(lru) = 3
    /\ Keys(lru) = GroupKeys(input.name_servers) \cup GroupKeys(input.glue)

(***************************************************************************)
(* Properties of two concurrent calls                                      *)
(***************************************************************************)
\* a call of resolve returns records from its first step, the cache lookup
ServedFromCache ==
    /\ RunningStep
    /\ AtEntry
    /\ Len(stack) = 1
    /\ stack' = <<>>
    /\ ret' # None
    /\ ret'[1].ok

\* no entry of the cache is under the key of the invocation on top
NoEntry == \A i \in 1..Len(lru) : lru[i].key # Query(Top.to_resolve, Top.record_type)

\* C28: concurrent calls are not de-duplicated: a call is served from the
\* cache, without a backend call, only when the cache holds an entry under
\* its (name, type) whose records all have a positive ttl, and it is served
\* the records of that entry; a call that finds no entry goes on to the
\* name servers whatever the other call is doing, be it in the middle of a
\* backend exchange for the same (name, type).
C28_NoDeduplication ==
    [][/\ ServedFromCache =>
             \E i \in 1..Len(lru) :
                 /\ lru[i].key = Query(Top.to_resolve, Top.record_type)
                 /\ lru[i].value # <<>>
                 /\ \A j \in 1..Len(lru[i].value) : lru[i].value[j].ttl > 0
                 /\ \E ttl \in 0..MaxTime : ret'[1].records = WithTtl(lru[i].value, ttl)
       /\ (RunningStep /\ AtEntry /\ Len(stack) = 1 /\ NoEntry) =>
             /\ ret' = ret
             /\ stack'[1].pc = "next"]_vars

\* both calls asked for the same name on an empty cache and each holds the
\* response to a backend query of its own
C28_Witness ==
    /\ lru = <<>>
    /\ Len(stack) = 1
    /\ Len(hist.stack) = 1
    /\ stack[1].to_resolve = hist.stack[1].to_resolve
    /\ stack[1].pc = "response"
    /\ hist.stack[1].pc = "response"

\* one call has returned the answer it stored, and the other call, started
\* after it, was served the same records without a backend call
C28_WitnessServed ==
    /\ stack = <<>>
    /\ hist.stack = <<>>
    /\ ret = Some(Ok(<<RecA(HostA, "ip4", 1)>>))
    /\ hist.ret = ret
    /\ Len(hist.seen) = 1
    /\ Len(seen) = 1
    /\ now = 0

(***************************************************************************)
(* One call that is always given its next step: every await of             *)
(* resolve_inner completes, the backend's included (the server "ip4").     *)
(***************************************************************************)
InitFair ==
    /\ lru = <<>>
    /\ capacity = CACHE_SIZE
    /\ call = [op |-> "none"]
    /\ hist = <<>>
    /\ input = <<>>
    /\ now = 0
    /\ roots = <<"ip4">>
    /\ seen = <<>>
    /\ stack = <<>>
    /\ ret = None

\* the steps of a call that is under way
ResolveStep ==
    \/ ResolveInnerEnter
    \/ NextTarget
    \/ TargetToIp
    \/ BackendQuery
    \/ Classify

NextFair ==
    \/ \E to_resolve \in {HostA, HostB} : Resolve(to_resolve, "A")
    \/ ResolveStep

SpecFair == InitFair /\ [][NextFair]_vars /\ WF_vars(ResolveStep)

\* C29: a call of resolve that is under way eventually returns to its
\* caller, whatever the backend answers, as long as every backend call
\* returns.
C29_ResolveTerminates == (stack # <<>>) ~> (stack = <<>>)

(***************************************************************************)
(* The cache mutex (cache.rs:15, 31, 36).  The tasks spawned by the daemon *)
(* run resolve_inner on the shared cache; here only their positions        *)
(* relative to the lock and to the awaits are kept: hist holds, per task,  *)
(* where it stands and at what depth, and call is the mutex, with the task *)
(* that holds the guard and the function that took it.                     *)
(***************************************************************************)
NumTasks == 2

Tasks == 1..NumTasks

\* Mutex::new(LruCache::new(capacity)): nobody holds the guard
Unlocked == [op |-> "none", task |-> 0]

\* self.lru.lock().unwrap() in function op, by task
Locked(task, op) == [op |-> op, task |-> task]

\* a guard that outlives the function that took it
MutexGuardKept(guard) == guard

\* the guard goes out of scope when the cache function returns
MutexGuardDrop(guard) == Unlocked

TaskAt(pc, depth) == [pc |-> pc, depth |-> depth]

InitMutex ==
    /\ call = Unlocked
    /\ hist = [t \in Tasks |-> TaskAt("idle", 0)]
    /\ input = <<>>
    /\ lru = <<>>
    /\ capacity = CACHE_SIZE
    /\ now = 0
    /\ roots = <<>>
    /\ seen = <<>>
    /\ stack = <<>>
    /\ ret = None

Goto(t, pc) == hist' = [hist EXCEPT ![t].pc = pc]

\* resolve_inner returns: to target_to_ip of the invocation that awaits it,
\* or from resolve to handle, which sends the response
ReturnFrom(t) ==
    hist' = [hist EXCEPT ![t] = IF hist[t].depth = 1
                                 THEN TaskAt("send", 0)
                                 ELSE TaskAt("sub_result", hist[t].depth - 1)]

MutexIdle == UNCHANGED <<lru, capacity, input, now, roots, seen, stack, ret>>

\* tokio::spawn(handle(...)): resolve calls resolve_inner at depth 1
Spawn(t) ==
    /\ hist[t].pc = "idle"
    /\ hist' = [hist EXCEPT ![t] = TaskAt("enter", 1)]
    /\ UNCHANGED call
    /\ MutexIdle

\* resolve_inner up to the call of get_best_record
Enter(t) ==
    /\ hist[t].pc = "enter"
    /\ IF too_deep(hist[t].depth) THEN ReturnFrom(t)
       ELSE \/ hist[t].depth > 1 /\ ReturnFrom(t)
            \/ Goto(t, "get_lock")
    /\ UNCHANGED call
    /\ MutexIdle

\* Mutex::lock in get_with_remaining_ttl and in store_with_ttl: the thread
\* goes on when nobody holds the guard
Lock(t) ==
    /\ hist[t].pc \in {"get_lock", "store_lock", "store_referral_lock"}
    /\ call = Unlocked
    /\ CASE hist[t].pc = "get_lock" ->
                /\ call' = Locked(t, "get_with_remaining_ttl")
                /\ Goto(t, "get_held")
         [] hist[t].pc = "store_lock" ->
                /\ call' = Locked(t, "store_with_ttl")
                /\ Goto(t, "store_held")
         [] hist[t].pc = "store_referral_lock" ->
                /\ call' = Locked(t, "store_with_ttl")
                /\ Goto(t, "store_referral_held")
    /\ MutexIdle

\* get_with_remaining_ttl under the guard, to its return; get_best_record
\* then makes another get_and_update_ttl call or is done
LockedGet(t) ==
    /\ hist[t].pc = "get_held"
    /\ call' = MutexGuardDrop(call)
    /\ \/ Goto(t, "get_lock")
       \/ Goto(t, "looked_up")
    /\ MutexIdle

\* the match on get_best_record
LookedUp(t) ==
    /\ hist[t].pc = "looked_up"
    /\ \/ ReturnFrom(t)
       \/ Goto(t, "next")
    /\ UNCHANGED call
    /\ MutexIdle

\* candidates.next().await and target_to_ip: no target or an error, an
\* address, or a name, which is resolved by a nested resolve_inner
CandidatesNext(t) ==
    /\ hist[t].pc = "next"
    /\ \/ ReturnFrom(t)
       \/ Goto(t, "query")
       \/ hist' = [hist EXCEPT ![t] = TaskAt("enter", hist[t].depth + 1)]
    /\ UNCHANGED call
    /\ MutexIdle

\* target_to_ip once the nested resolve_inner has returned
SubResult(t) ==
    /\ hist[t].pc = "sub_result"
    /\ \/ ReturnFrom(t)
       \/ Goto(t, "query")
    /\ UNCHANGED call
    /\ MutexIdle

\* backend.query(...).await completes
BackendReturns(t) ==
    /\ hist[t].pc = "query"
    /\ Goto(t, "response")
    /\ UNCHANGED call
    /\ MutexIdle

\* the match on the response: an error, NXDomain or an answer that store
\* does not keep; an answer to store; a referral to store; a referral that
\* store_referral does not keep
Matched(t) ==
    /\ hist[t].pc = "response"
    /\ \/ ReturnFrom(t)
       \/ Goto(t, "store_lock")
       \/ Goto(t, "store_referral_lock")
       \/ Goto(t, "next")
    /\ UNCHANGED call
    /\ MutexIdle

\* store_with_ttl under the guard, to its return: the answer is returned, or
\* store_referral stores its next group or is done
LockedPut(t) ==
    /\ hist[t].pc \in {"store_held", "store_referral_held"}
    /\ call' = MutexGuardDrop(call)
    /\ IF hist[t].pc = "store_held" THEN ReturnFrom(t)
       ELSE \/ Goto(t, "store_referral_lock")
            \/ Goto(t, "next")
    /\ MutexIdle

\* socket.send_to(...).await completes and the task ends
Send(t) ==
    /\ hist[t].pc = "send"
    /\ Goto(t, "idle")
    /\ UNCHANGED call
    /\ MutexIdle

NextMutex ==
    \E t \in Tasks :
        \/ Spawn(t)
        \/ Enter(t)
        \/ Lock(t)
        \/ LockedGet(t)
        \/ LookedUp(t)
        \/ CandidatesNext(t)
        \/ SubResult(t)
        \/ BackendReturns(t)
        \/ Matched(t)
        \/ LockedPut(t)
        \/ Send(t)

SpecMutex == InitMutex /\ [][NextMutex]_vars

\* task t holds the guard
Holds(t) == call.op # "none" /\ call.task = t

\* task t is between lock() and the return of a cache function
InCacheFunction(t) == hist[t].pc \in {"get_held", "store_held", "store_referral_held"}

\* task t waits for the network: in a backend call or a socket operation
OnNetwork(t) == hist[t].pc \in {"query", "send"}

\* task t is at the call of a nested resolve_inner or at its return
AtSubResolution(t) ==
    \/ hist[t].pc = "enter" /\ hist[t].depth > 1
    \/ hist[t].pc = "sub_result"

\* C26: the guard of the cache mutex is held only between lock() and the
\* return of the cache function that took it: a task at a backend call, at
\* a socket operation, or at the call or the return of a nested
\* resolve_inner holds no guard, and a task that comes to lock() while all
\* others wait for the network or are idle finds the mutex free.
C26_NoSuspensionUnderMutex ==
    /\ \A t \in Tasks : Holds(t) => InCacheFunction(t)
    /\ \A t \in Tasks : (OnNetwork(t) \/ AtSubResolution(t)) => ~Holds(t)
    /\ \A t \in Tasks :
          (/\ hist[t].pc \in {"get_lock", "store_lock", "store_referral_lock"}
           /\ \A u \in Tasks \ {t} : OnNetwork(u) \/ hist[u].pc = "idle") =>
              call = Unlocked

\* one task waits for the backend in a nested invocation while the other
\* holds the guard in get_with_remaining_ttl
C26_Witness ==
    /\ hist[1].pc = "query"
    /\ hist[1].depth = 2
    /\ call = Locked(2, "get_with_remaining_ttl")
    /\ hist[2].pc = "get_held"

(***************************************************************************)
(* Further properties of the resolver                                      *)
(***************************************************************************)
\* the invocation on top of the stack after the step
TopAfter == stack'[Len(stack')]

\* the step brings the top invocation to the point where it asks its
\* provider
ComesToNext ==
    /\ stack' # <<>>
    /\ stack' # stack
    /\ TopAfter.pc = "next"

\* the provider the top invocation holds after the step has just been built:
\* from the roots or the cached referral at the entry, from the sections of
\* the response after a referral
FreshProvider ==
    /\ Len(stack') = Len(stack)
    /\ Top.pc \in {"enter", "response"}
    /\ Top.pc = "response" =>
          TopAfter.candidates \in
              NsProviderNew(Top.message[1].name_servers, Top.message[1].additionals)
    /\ (Top.pc = "enter" /\ TopAfter.candidates.kind = "roots") =>
          TopAfter.candidates \in RootsProviderNew(roots)
    /\ (Top.pc = "enter" /\ TopAfter.candidates.kind = "ns") =>
          LET resp == get_best_record(lru, Query(Top.to_resolve, Top.record_type),
                                      now').resp
          IN  TopAfter.candidates \in NsProviderNew(resp.records, resp.glue)

\* C31: a provider is asked for a target once.  An invocation comes to ask
\* its provider only with a provider that has just been built (at its entry,
\* or from the referral it has just received); having asked, it returns or
\* goes on with the target it got, and from there it returns or comes back
\* with a new NsProvider: a second root, or a second name server of the same
\* referral, is never asked for.
C31_ProviderAskedOnce ==
    [][/\ ComesToNext => FreshProvider
       /\ AtNext =>
             \/ stack' = Popped /\ ret' # None
             \/ /\ Len(stack') >= Len(stack)
                /\ stack'[Len(stack)].pc \in {"query", "await_sub"}
                /\ stack'[Len(stack)].candidates.items =
                      SubSeq(Top.candidates.items, 1, Len(Top.candidates.items) - 1)
       /\ (stack # <<>> /\ Top.pc \in {"query", "response", "await_sub"}) =>
             \/ stack' = Popped /\ ret' # None
             \/ ComesToNext
             \/ /\ Len(stack') = Len(stack)
                /\ TopAfter.candidates = Top.candidates]_vars

\* of two roots the first one failed and resolve returned its error: the
\* second root was not asked
C31_Witness ==
    /\ Len(roots) = 2
    /\ stack = <<>>
    /\ ret = Some(BackendError("IOError"))
    /\ seen = <<<<HostA, "A">>>>
    /\ lru = <<>>

\* the first name server of a referral to two is being queried; the one
\* left in the provider will not be
C31_WitnessNs ==
    /\ stack # <<>>
    /\ Top.pc = "query"
    /\ Top.candidates.kind = "ns"
    /\ Len(Top.candidates.items) = 1

\* an invocation under the one on top of the stack, still running, is
\* resolving the same pair
EnclosingRuns ==
    \E i \in 1..(Len(stack) - 1) :
        /\ to_lowercase(stack[i].to_resolve) = to_lowercase(Top.to_resolve)
        /\ stack[i].record_type = Top.record_type

\* the entry returns the seen-twice ServFail
RefusedAsSeenTwice == stack' = Popped /\ SeenTwice(ret')

\* C32, as stated: an entry is refused with the seen-twice ServFail only
\* when an enclosing invocation that is still running resolves the same
\* pair; a pair whose earlier invocation has returned is entered again
\* without that failure.
C32_SeenTwiceOnlyInCycle ==
    [][(AtEntry /\ RefusedAsSeenTwice) => EnclosingRuns]_vars

\* C32, amended: an entry is refused with the seen-twice ServFail only when
\* the pair was entered before in the same resolution, and (within the depth
\* limit) whenever it was: also when the earlier invocation has returned, so
\* that no enclosing invocation is resolving the pair.
C32_SeenTwiceOnAnyReentry ==
    [][/\ (AtEntry /\ RefusedAsSeenTwice) => PairSeen
       /\ (AtEntry /\ PairSeen /\ ~EnclosingRuns
             /\ Top.depth <= MAX_RECURSION_DEPTH) =>
             /\ RefusedAsSeenTwice
             /\ lru' = lru]_vars

\* the sub-resolution of HostB has returned an address, the server at that
\* address referred to HostB again, and the second sub-resolution was refused
\* while only the invocation for HostA was running
C32_Witness ==
    /\ Len(stack) = 1
    /\ stack[1].to_resolve = HostA
    /\ stack[1].pc = "await_sub"
    /\ seen = <<<<HostA, "A">>, <<HostB, "A">>>>
    /\ ret = Some(ServFailSeenTwice(<<HostB, "A">>))

\* resolve returns the NxDomain error to its caller
ResolveReturnsNxDomain ==
    /\ Len(stack) = 1
    /\ stack' = <<>>
    /\ ret' = Some(NxDomain)

\* C33: resolve(name, type) returns NxDomain only in the step in which its
\* own invocation matches on a backend response, to a query for (name,
\* type), that carries the code NXDomain; an NXDomain received by a nested
\* invocation for a name server's name does not reach the caller as NxDomain.
C33_NxDomainOnlyForQueriedName ==
    [][ResolveReturnsNxDomain =>
          /\ AtResponse
          /\ Top.message[1].ok
          /\ Top.message[1].response_code = "NXDomain"]_vars

\* every record of the entry has the owner and the type of its key
MatchesKey(entry) ==
    \A j \in 1..Len(entry.value) :
        /\ to_lowercase(entry.value[j].name) = entry.key.to_resolve
        /\ entry.value[j].rtype = entry.key.record_type

\* C34, as stated: in every reachable state of the cache every record of the
\* entry under (n, t) has owner n and type t.
C34_EntriesMatchKey == \A i \in 1..Len(lru) : MatchesKey(lru[i])

\* C34, amended: an entry written from a referral holds only records with
\* the owner and the type of its key; the entry written from a final answer
\* holds the answer section as it came, under the key of the query, whatever
\* the owners and types of its records.
C34_ReferralEntriesMatchKey ==
    [][AtResponse =>
          \A i \in 1..Len(lru') :
              (\A j \in 1..Len(lru) : lru[j] # lru'[i]) =>
                  IF ReturnsRecords
                  THEN /\ lru'[i].key = Query(Top.to_resolve, Top.record_type)
                       /\ lru'[i].value = Top.message[1].answers
                  ELSE MatchesKey(lru'[i])]_vars

\* the cache holds the NS group and the glue of a referral, each under its
\* own key, and an answer for HostA that ends with a record of another owner
C34_Witness ==
    /\ \E i \in 1..Len(lru) :
          /\ lru[i].key = Query(HostA, "A")
          /\ lru[i].value = <<RecA(HostA, "ip3", 1), RecA(Victim, "ip3", 1)>>
    /\ \E i \in 1..Len(lru) : lru[i].key = Query(Zone, "NS")
    /\ \E i \in 1..Len(lru) : lru[i].key = Query(HostB, "A")


(***************************************************************************)
(* C35: entries written from final answers and the referrals that follow.  *)
(***************************************************************************)
\* the names the servers of the model are asked for
ServerNames ==
    Queried \cup {HostA, HostB, HostC, HostD, HostE, HostF, HostAUpper}

\* the authority and additional sections of everything the servers can come
\* back with
ReferralSections ==
    UNION {{m.name_servers, m.additionals} :
             m \in UNION {AllResponses(n, "A") \cup TwoServerResponses(n) :
                             n \in ServerNames}}

\* the entry holds the answer section of a final response to the query of
\* its key, and none of its records occurs in a section store_referral reads:
\* only cache.store of the answer branch can have written it
WrittenFromAnswer(entry) ==
    /\ entry.value # <<>>
    /\ entry.key = Query(entry.value[1].name, entry.key.record_type)
    /\ entry.value \in FinalAnswerSections(entry.value[1].name,
                                           entry.key.record_type)
    /\ \A j \in 1..Len(entry.value) :
          \A section \in ReferralSections : ~InSeq(section, entry.value[j])

\* resolve_inner is about to store a referral and go on with its name servers
StoresReferral == AtResponse /\ classify(Top.message[1]) = "Referral"

\* C35: when resolve_inner handles a referral, every cache entry that was
\* written from a final answer and has not expired is left as it is: the
\* cache holds no other entry under its key afterwards (it may have given way
\* to the capacity, but no record of the referral's authority or additional
\* section takes its place).
C35_AnswerEntryNotReplacedByReferral ==
    [][StoresReferral =>
          \A i \in 1..Len(lru) :
              (WrittenFromAnswer(lru[i]) /\ lru[i].valid_before >= now') =>
                  \A j \in 1..Len(lru') :
                      lru'[j].key = lru[i].key => lru'[j] = lru[i]]_vars


(***************************************************************************)
(* The daemon's receive loop (daemon.rs, daemon and read_message).  input  *)
(* is the socket's receive queue, call is the state of the daemon future   *)
(* and hist holds the tasks spawned so far, each with the request it was   *)
(* spawned for and, once handle has sent it, the response.                 *)
(***************************************************************************)
MaxDatagrams == 3

\* what a peer can send: the encoding of a request, or bytes that are no
\* DNS message
Encoded(message) == [wire |-> "dns", message |-> Some(message)]

Garbage == [wire |-> "junk", message |-> None]

Datagrams == {Encoded(message) : message \in Requests} \cup {Garbage}

\* Message::from_bytes(&buf[..bytes_read])
from_bytes(bytes) == IF bytes.wire = "dns" THEN bytes.message ELSE None

\* what resolver.resolve can hand to daemon::resolve
ResolveOutcomes(query) ==
    {Ok(<<RecA(query.name, "ip4", 1)>>), NxDomain,
     ServFail("no more nameservers to try")}

\* daemon::resolve(msg, resolver) as a whole
DaemonResponses(msg) ==
    IF msg.query = None
    THEN {[message_new(msg) EXCEPT !.response_code = "FormErr"]}
    ELSE {response_for(message_new(msg), result) :
            result \in ResolveOutcomes(msg.query[1])}

InitListener ==
    /\ lru = <<>>
    /\ capacity = CACHE_SIZE
    /\ call = [pc |-> "loop", arrived |-> 0, undecodable |-> FALSE]
    /\ hist = <<>>
    /\ input = <<>>
    /\ now = 0
    /\ roots = <<"ip4">>
    /\ seen = <<>>
    /\ stack = <<>>
    /\ ret = None

\* a datagram reaches the socket
Arrive(bytes) ==
    /\ call.arrived < MaxDatagrams
    /\ input' = Append(input, [serial |-> call.arrived + 1, bytes |-> bytes])
    /\ call' = [call EXCEPT !.arrived = @ + 1]
    /\ UNCHANGED <<lru, capacity, hist, now, roots, seen, stack, ret>>

\* one round of the loop of daemon: read_message(...).await? and
\* tokio::spawn(handle(...)); the ? returns from daemon when the datagram
\* does not decode
DaemonLoop ==
    /\ call.pc = "loop"
    /\ input # <<>>
    /\ LET datagram == Head(input)
           msg == from_bytes(datagram.bytes)
       IN  IF msg = None
           THEN /\ call' = [call EXCEPT !.pc = "returned", !.undecodable = TRUE]
                /\ hist' = hist
           ELSE /\ hist' = Append(hist, [serial |-> datagram.serial,
                                         msg |-> msg[1], response |-> None])
                /\ call' = call
    /\ input' = Tail(input)
    /\ UNCHANGED <<lru, capacity, now, roots, seen, stack, ret>>

\* handle: resolve(msg, &resolver).await and socket.send_to(response, peer)
Handle(i) ==
    /\ i \in 1..Len(hist)
    /\ hist[i].response = None
    /\ \E response \in DaemonResponses(hist[i].msg) :
          hist' = [hist EXCEPT ![i].response = Some(response)]
    /\ UNCHANGED <<lru, capacity, call, input, now, roots, seen, stack, ret>>

NextListener ==
    \/ \E bytes \in Datagrams : Arrive(bytes)
    \/ DaemonLoop
    \/ \E i \in 1..MaxDatagrams : Handle(i)

\* the runtime keeps polling the daemon future and every spawned task
SpecListener ==
    /\ InitListener
    /\ [][NextListener]_vars
    /\ WF_vars(DaemonLoop)
    /\ \A i \in 1..MaxDatagrams : WF_vars(Handle(i))

\* the daemon has read a datagram that does not decode
UndecodableRead == call.undecodable

\* the n-th datagram is a request that waits in the socket
Pending(n) ==
    \E i \in 1..Len(input) :
        /\ input[i].serial = n
        /\ from_bytes(input[i].bytes) # None

\* the request of the n-th datagram has a task of its own, and the task has
\* sent its response
Answered(n) ==
    /\ Cardinality({i \in 1..Len(hist) : hist[i].serial = n}) = 1
    /\ \E i \in 1..Len(hist) :
          /\ hist[i].serial = n
          /\ hist[i].response # None
          /\ hist[i].response[1].id = hist[i].msg.id

\* C36: once the daemon has read a datagram that does not decode, every
\* request that waits in the socket is eventually read, handled in a task of
\* its own and answered.
C36_ListensAfterUndecodable ==
    \A n \in 1..MaxDatagrams : (UndecodableRead /\ Pending(n)) ~> Answered(n)


(***************************************************************************)
(* Concurrent calls of store_with_ttl and get_with_remaining_ttl on one    *)
(* key (cache.rs:29-48), statement by statement.  call is the set of tasks *)
(* that hold a guard of the mutex, hist holds, per task, the call it is in *)
(* with its arguments, the position in it, the entry guard.get(key) found  *)
(* (with_ttl) and the result of its last get.  While the guard is held the *)
(* entry with_ttl refers to cannot change, so the task keeps a copy.       *)
(***************************************************************************)
SharedKey == "key0"

TaskIdle(res) ==
    [pc |-> "idle", value |-> "", valid_before |-> 0, now |-> 0,
     with_ttl |-> None, res |-> res]

\* self.lru.lock().unwrap().get(key) with the guard as a temporary: it is
\* gone after the lookup
GuardTemporary(holders, t) == holders \ {t}

\* let mut guard = self.lru.lock().unwrap(): the guard is a local of
\* get_with_remaining_ttl and is still held after guard.get(key)
GuardAfterGet(holders, t) == holders

InitConcurrent ==
    /\ lru = <<>>
    /\ capacity = 1
    /\ call = {}
    /\ hist = [t \in Tasks |-> TaskIdle(None)]
    /\ input = <<>>
    /\ InitResolverIdle

ConcurrentIdle == UNCHANGED <<capacity, input, now, roots, seen, stack, ret>>

\* a task calls store_with_ttl(key, value, valid_before)
CallStoreWithTtl(t, value, valid_before) ==
    /\ hist[t].pc = "idle"
    /\ hist' = [hist EXCEPT ![t] = [TaskIdle(None) EXCEPT
                                       !.pc = "store_lock", !.value = value,
                                       !.valid_before = valid_before]]
    /\ UNCHANGED <<lru, call>>
    /\ ConcurrentIdle

\* a task calls get_with_remaining_ttl(&key, now)
CallGetWithRemainingTtl(t) ==
    /\ hist[t].pc = "idle"
    /\ hist' = [hist EXCEPT ![t] = [TaskIdle(None) EXCEPT
                                       !.pc = "get_lock", !.now = now]]
    /\ UNCHANGED <<lru, call>>
    /\ ConcurrentIdle

\* self.lru.lock().unwrap(): the thread goes on when nobody holds a guard
Acquire(t) ==
    /\ hist[t].pc \in {"store_lock", "get_lock"}
    /\ call = {}
    /\ call' = {t}
    /\ hist' = [hist EXCEPT ![t].pc = IF hist[t].pc = "store_lock"
                                      THEN "store_put" ELSE "get_lookup"]
    /\ UNCHANGED lru
    /\ ConcurrentIdle

\* .put(key, ValueWithTTL { value, valid_before }); the guard is dropped at
\* the end of the statement
StorePut(t) ==
    /\ hist[t].pc = "store_put"
    /\ lru' = store_with_ttl(lru, capacity, SharedKey, hist[t].value,
                             hist[t].valid_before)
    /\ call' = call \ {t}
    /\ hist' = [hist EXCEPT ![t] = TaskIdle(None)]
    /\ ConcurrentIdle

\* let with_ttl = guard.get(key)?;
GetLookup(t) ==
    /\ hist[t].pc = "get_lookup"
    /\ LET i == IndexOf(lru, SharedKey) IN
       IF i = 0
       THEN /\ hist' = [hist EXCEPT ![t] = TaskIdle(Some(None))]
            /\ call' = call \ {t}
            /\ lru' = lru
       ELSE /\ hist' = [hist EXCEPT ![t].pc = "get_check",
                                    ![t].with_ttl = Some(lru[i])]
            /\ call' = GuardAfterGet(call, t)
            /\ lru' = LruGet(lru, SharedKey)
    /\ ConcurrentIdle

\* if with_ttl.valid_before < now
GetCheck(t) ==
    /\ hist[t].pc = "get_check"
    /\ hist' = [hist EXCEPT ![t].pc =
                   IF hist[t].with_ttl[1].valid_before < hist[t].now
                   THEN "get_pop" ELSE "get_clone"]
    /\ UNCHANGED <<lru, call>>
    /\ ConcurrentIdle

\* guard.pop(key); None
GetPop(t) ==
    /\ hist[t].pc = "get_pop"
    /\ lru' = LruPop(lru, SharedKey)
    /\ call' = call \ {t}
    /\ hist' = [hist EXCEPT ![t] = TaskIdle(Some(None))]
    /\ ConcurrentIdle

\* Some((with_ttl.value.clone(), with_ttl.valid_before - now))
GetClone(t) ==
    /\ hist[t].pc = "get_clone"
    /\ hist' = [hist EXCEPT ![t] = TaskIdle(Some(Some(
                   [value |-> hist[t].with_ttl[1].value,
                    remaining |-> hist[t].with_ttl[1].valid_before - hist[t].now])))]
    /\ call' = call \ {t}
    /\ lru' = lru
    /\ ConcurrentIdle

NextConcurrent ==
    \/ \E t \in Tasks, value \in CacheValues, valid_before \in {now, now + 1} :
          CallStoreWithTtl(t, value, valid_before)
    \/ \E t \in Tasks : CallGetWithRemainingTtl(t)
    \/ \E t \in Tasks : Acquire(t)
    \/ \E t \in Tasks : StorePut(t)
    \/ \E t \in Tasks : GetLookup(t)
    \/ \E t \in Tasks : GetCheck(t)
    \/ \E t \in Tasks : GetPop(t)
    \/ \E t \in Tasks : GetClone(t)
    \/ Tick

SpecConcurrent == InitConcurrent /\ [][NextConcurrent]_vars

\* the task is inside get_with_remaining_ttl, past the lock
InsideGet(t) ==
    hist[t].pc \in {"get_lookup", "get_check", "get_pop", "get_clone"}

\* the step is the return of a get of task t with a value
GetReturnsValue(t) ==
    /\ hist[t].pc = "get_clone"
    /\ hist'[t].pc = "idle"

\* C37: whatever the interleaving of the store_with_ttl and
\* get_with_remaining_ttl calls of the tasks on one key: from its lookup to
\* its return a get is the only holder of the guard; a step that takes an
\* entry out of the cache is the removal of a get, and the entry's expiry is
\* not later than that get's now; and a get that returns a value returns the
\* value of the entry the cache holds under the key at that moment, with the
\* time from the get's now to that entry's expiry.
C37_GetUnderOneAcquisition ==
    [][/\ \A t \in Tasks : InsideGet(t) => call = {t}
       /\ \A i \in 1..Len(lru) :
             (\A j \in 1..Len(lru') : lru'[j].key # lru[i].key) =>
                 \E t \in Tasks : /\ hist[t].pc = "get_pop"
                                  /\ hist'[t].pc = "idle"
                                  /\ lru[i].valid_before <= hist[t].now
       /\ \A t \in Tasks :
             GetReturnsValue(t) =>
                 \E i \in 1..Len(lru) :
                     /\ lru[i].key = SharedKey
                     /\ hist'[t].res =
                           Some(Some([value |-> lru[i].value,
                                      remaining |-> lru[i].valid_before
                                                      - hist[t].now]))]_vars

\* a get has found an expired entry and is about to remove it, while another
\* task waits for the lock with a store for the same key
C37_Witness ==
    \E t \in Tasks, u \in Tasks :
        /\ hist[t].pc = "get_pop"
        /\ hist[u].pc = "store_lock"
        /\ hist[u].valid_before > hist[t].now

\* a get has returned a value while another task waited with a store of
\* another value
C37_WitnessReturned ==
    \E t \in Tasks, u \in Tasks :
        /\ hist[t].pc = "idle"
        /\ hist[t].res # None
        /\ hist[t].res[1] # None
        /\ hist[u].pc = "store_lock"
        /\ hist[u].value # hist[t].res[1][1].value

=============================================================================
